---- MODULE Spec2Model ----
(***************************************************************************)
(* Charge deposition of WarpX / ABLASTR:                                   *)
(*   ablastr::particles::deposit_charge   (src/unnamed/part_001)           *)
(* modelled for the 1D build (WARPX_DIM_1D_Z).                             *)
(*                                                                         *)
(* Numbers.  Physical positions are integers, in units of 1/SubPerCell of  *)
(* a cell of the particles' level.  A reduced coordinate x = (xp-xmin)/dx  *)
(* is kept as the fraction xn/xd with xd = 2*dx, so that the half-cell     *)
(* shift of a cell-centred field stays an integer.  Shape factors of order *)
(* n are kept as integers over the common denominator ShapeDen(n, xd), and *)
(* every field value is an integer over that same denominator: all the     *)
(* arithmetic of the kernel is exact.                                      *)
(***************************************************************************)
EXTENDS Integers, Sequences, FiniteSets, TLC

(***************************************************************************)
(* Bounds of the model.                                                    *)
(***************************************************************************)
MaxParticles == 2      \* particles in the tile
MaxGuard     == 3      \* largest allocated guard width of rho
SubPerCell   == 2      \* particle positions per cell of the particles' level
TileHi       == 3      \* the tile is [0, TileHi] in the index space of lev
Lev          == 1      \* pti.GetLevel()
MaxOthers    == 1      \* concurrent calls of other threads
MantissaBits == 3      \* significand width of the model's ParticleReal
MaxStep      == 2      \* time steps for which diagnostics are computed

(***************************************************************************)
(* std::optional                                                           *)
(***************************************************************************)
nullopt == [has_value |-> FALSE, value |-> 0]

Some(v) == [has_value |-> TRUE, value |-> v]

Optional(S) == {nullopt} \cup {Some(v) : v \in S}

(***************************************************************************)
(* amrex::Box, amrex::IntVect and amrex::IndexType in one dimension.       *)
(***************************************************************************)
CELL == 0

NODE == 1

Box(l, h) == [lo |-> l, hi |-> h]

\* Box::grow(n): n cells more on either side (fewer when n < 0)
grow(b, n) == Box(b.lo - n, b.hi + n)

\* amrex::coarsen(Box, ratio) of a cell-centred box: both ends floor-divided
coarsen(b, ratio) == Box(b.lo \div ratio, b.hi \div ratio)

\* amrex::convert(Box, IndexType): a nodal box has one more point
convert(b, typ) == IF typ = NODE THEN Box(b.lo, b.hi + 1) ELSE b

\* Box::contains(IntVect)
contains(b, i) == b.lo <= i /\ i <= b.hi

\* IntVect::allLE
allLE(a, b) == a <= b

Cells(b) == b.lo .. b.hi

(***************************************************************************)
(* Shape factors (Compute_shape_factor<depos_order>): the index of the     *)
(* leftmost point the particle touches and the depos_order+1 weights, for  *)
(* the reduced coordinate xn/xd.  The weights are numerators over          *)
(* ShapeDen(n, xd).                                                         *)
(***************************************************************************)
ShapeDen(n, xd) ==
    CASE n = 1 -> xd
      [] n = 2 -> 8 * xd * xd
      [] n = 3 -> 6 * xd * xd * xd
      [] n = 4 -> 384 * xd * xd * xd * xd

\* j = floor(x), xint = x - j in [0, 1)
FloorIdx(xn, xd) == xn \div xd

\* j = floor(x + 0.5), xint = x - j in [-1/2, 1/2)
RoundIdx(xn, xd) == (2 * xn + xd) \div (2 * xd)

compute_shape_factor(n, xn, xd) ==
    CASE n = 1 ->
           LET j == FloorIdx(xn, xd)
               a == xn - j * xd
           IN  [i |-> j, sx |-> << xd - a, a >>]
      [] n = 2 ->
           LET j == RoundIdx(xn, xd)
               a == xn - j * xd
           IN  [i |-> j - 1,
                sx |-> << (xd - 2*a) * (xd - 2*a),
                          6 * xd * xd - 8 * a * a,
                          (xd + 2*a) * (xd + 2*a) >>]
      [] n = 3 ->
           LET j == FloorIdx(xn, xd)
               a == xn - j * xd
               b == xd - a
           IN  [i |-> j - 1,
                sx |-> << b * b * b,
                          4 * xd*xd*xd - 6 * a*a * xd + 3 * a*a*a,
                          4 * xd*xd*xd - 6 * b*b * xd + 3 * b*b*b,
                          a * a * a >>]
      [] n = 4 ->
           LET j == RoundIdx(xn, xd)
               a == xn - j * xd
               m == xd - 2*a
               p == xd + 2*a
               x4 == xd * xd * xd * xd
           IN  [i |-> j - 2,
                sx |-> << m * m * m * m,
                          76 * x4 + 176 * a * xd*xd*xd + 96 * a*a * xd*xd
                             - 64 * a*a*a * xd - 64 * a*a*a*a,
                          230 * x4 - 240 * a*a * xd*xd + 96 * a*a*a*a,
                          76 * x4 - 176 * a * xd*xd*xd + 96 * a*a * xd*xd
                             + 64 * a*a*a * xd - 64 * a*a*a*a,
                          p * p * p * p >>]

(***************************************************************************)
(* State.                                                                  *)
(*   cfg        what the caller built before the call and the build       *)
(*              itself: the execution target, the shape order, the field's *)
(*              staggering, allocated guard width and components, the      *)
(*              refinement ratio between lev and the level of rho, and the *)
(*              tile's particles (positions xp, weights wp, ionization     *)
(*              levels ion) with the species charge                        *)
(*   rho        the target MultiFab's FArrayBox of this tile:              *)
(*              component -> point -> value                                *)
(*   local_rho  the caller's scratch FArrayBox: its box, its number of     *)
(*              components and its data                                    *)
(*   arg        the optional and defaulted arguments of the call           *)
(*   loc        the locals of deposit_charge                               *)
(*   pc, fail   where the call stands, and the assertion that aborted it   *)
(*   hist       rho at call entry, the particle indices the kernel has     *)
(*              read, whether a kernel write fell outside rho_fab's box,   *)
(*              the calls that returned, and how often this call has taken *)
(*              the add-lock of rho, and the kernel specializations it has *)
(*              invoked                                                    *)
(*   lock       the add-lock of rho's FArrayBox: free, or the thread that  *)
(*              holds it (thread 0 runs the call above)                    *)
(*   merge      for every thread, how far its lockAdd into rho has come;   *)
(*              for the threads other than 0, which run other calls of     *)
(*              deposit_charge on neighbouring tiles, also their scratch   *)
(*              buffer                                                     *)
(* and beside deposit_charge                                               *)
(*   container  the particle container handed to particlesConvertUnits:    *)
(*              its mass, its particles level by level, and what the       *)
(*              caller remembers of it                                     *)
(*   diag       the ParticleExtrema diagnostic with the simulation it      *)
(*              looks at: the species and their particles, m_species_name, *)
(*              m_intervals, m_headers_indices and m_data                  *)
(***************************************************************************)
VARIABLES cfg, rho, local_rho, arg, loc, pc, fail, hist, lock, merge,
          container, diag

vars == << cfg, rho, local_rho, arg, loc, pc, fail, hist, lock, merge,
           container, diag >>

\* the state of deposit_charge and of the threads around it
deposit_vars ==
    << cfg, rho, local_rho, arg, loc, pc, fail, hist, lock, merge >>

\* pti.tilebox(): the tile in the index space of lev
TileBox == Box(0, TileHi)

\* pti.numParticles()
numParticles == Len(cfg.xp)

\* the level rho lives on: lev itself, or lev-1 for a coarse buffer
RhoLev == IF cfg.crse_ratio = 1 THEN Lev ELSE Lev - 1

\* the allocated box of rho's FArrayBox: the valid box at rho's level, in
\* rho's staggering, grown by rho->nGrowVect()
RhoBox ==
    grow(convert(IF cfg.crse_ratio = 1 THEN TileBox
                 ELSE coarsen(TileBox, cfg.crse_ratio), cfg.rho_type),
         cfg.nGrow)

\* cell size of the level deposited to, in position units (argument dx)
CellSize == SubPerCell * cfg.crse_ratio

\* the common denominator of every field value
Den == ShapeDen(cfg.particle_shape, 2 * CellSize)

(***************************************************************************)
(* The argument checks of deposit_charge, lines 69-98.                     *)
(***************************************************************************)
\* lines 70-73
deposition_guards(a) ==
    IF a.num_rho_deposition_guards.has_value
    THEN a.num_rho_deposition_guards.value ELSE cfg.nGrow

\* line 74
\* an override that is accepted whatever rho has allocated
guards_unchecked(ng) == TRUE

guards_allocated(ng) == allLE(ng, cfg.nGrow)

\* lines 81-83
particles_to_deposit(a) ==
    IF a.np_to_deposit.has_value THEN a.np_to_deposit.value ELSE numParticles

\* a count assertion that forgets the offset
count_in_bounds_without_offset(np, offset) == np <= numParticles

\* line 84
count_in_bounds(np, offset) == np + offset <= numParticles

\* lines 87-90
deposition_level(a) ==
    IF a.depos_lev.has_value THEN a.depos_lev.value ELSE Lev

\* a level assertion that lets every level up to lev through
level_supported_up_to_lev(dlev) == dlev <= Lev

\* lines 91-92
level_supported(dlev) == (dlev = Lev - 1) \/ (dlev = Lev)

\* a ratio assertion that never fires
ratio_never_needed(dlev) == TRUE

\* line 95, evaluated when rel_ref_ratio has no value
ratio_not_needed(dlev) == Lev = dlev

\* lines 94-98
refinement_ratio(a) ==
    IF a.rel_ref_ratio.has_value THEN a.rel_ref_ratio.value ELSE 1

\* The first assertion of lines 69-98 that fails, in the order of the code
entry_failure(a) ==
    LET ng   == deposition_guards(a)
        np   == particles_to_deposit(a)
        dlev == deposition_level(a)
    IN  CASE ~ guards_allocated(ng)            -> "guards"
          [] ~ count_in_bounds(np, a.offset)   -> "count"
          [] ~ level_supported(dlev)           -> "level"
          [] (~ a.rel_ref_ratio.has_value) /\ ~ ratio_not_needed(dlev)
                                               -> "ratio"
          [] OTHER                             -> "none"

(***************************************************************************)
(* The particle check of lines 103-132.                                    *)
(***************************************************************************)
\* the extent rounded up: ceil(noz/2) + 1
shape_extent_rounded_up(noz) == (noz + 1) \div 2 + 1

\* lines 108-120 (1D: noz/2+1, integer division)
shape_extent(noz) == noz \div 2 + 1

\* lines 124-128: ng_rho - shape_extent on CPU, rho->nGrowVect() -
\* shape_extent on GPU
guard_range(gpu, ng, extent) ==
    IF gpu THEN cfg.nGrow - extent ELSE ng - extent

\* the cell of lev a particle is in (domain low end 0, low corner 0)
particle_cell(x) == x \div SubPerCell

\* amrex::numParticlesOutOfRange(pti, range): the particles of the tile
\* whose cell is outside pti.tilebox() grown by range
numParticlesOutOfRange(rng) ==
    Cardinality({ p \in 1..numParticles :
                    ~ contains(grow(TileBox, rng), particle_cell(cfg.xp[p])) })

\* lines 130-132
particles_fit(rng) == numParticlesOutOfRange(rng) = 0

(***************************************************************************)
(* The boxes of lines 137-174.                                             *)
(***************************************************************************)
\* lines 140-145: the tile box of the level deposited to
\* a tile box that is coarsened by whatever ratio the call has
deposition_tilebox_by_ratio(dlev, ratio) == coarsen(TileBox, ratio)

deposition_tilebox(dlev, ratio) ==
    IF Lev = dlev THEN TileBox ELSE coarsen(TileBox, ratio)

\* lines 149 and 160: the staggered tile box with its guard cells
staggered_tilebox(tilebox, ng) == grow(convert(tilebox, cfg.rho_type), ng)

\* lines 152 and 174: lbound of the tile box grown by ng_rho
lbound(tilebox, ng) == grow(tilebox, ng).lo

\* lines 157 and 200: the first component written
first_component(icomp, nc) == icomp * nc

\* lines 163-166: FArrayBox::resize(tb, nc), then setVal(0.0)
\* a buffer that is resized and keeps what the memory held
resized_only(b, nc) ==
    [box |-> b, nc |-> nc,
     data |-> [n \in 0..(nc - 1) |-> [c \in Cells(b) |-> 1]]]

zeroed(b, nc) ==
    [box |-> b, nc |-> nc,
     data |-> [n \in 0..(nc - 1) |-> [c \in Cells(b) |-> 0]]]

\* argument xyzmin: the physical low corner of the grown tile box, whose
\* low index is lo, on the level deposited to
xyzmin(lo) == lo * CellSize

(***************************************************************************)
(* The kernel doChargeDepositionShapeN<order>, one particle ip of the      *)
(* np_to_deposit it loops over.  It is handed the position accessor        *)
(* GetParticlePosition(pti, offset), the weight pointer wp.dataPtr() +     *)
(* offset and the pointer ion_lev as the caller gave it (lines 171-193),   *)
(* and reads each of them at ip.                                           *)
(***************************************************************************)
\* a position accessor that ignores the offset
GetPosition_from_start(offset, ip) == cfg.xp[ip + 1]

\* line 171: GetPosition(ip), 0-based ip, 1-based sequence xp
GetPosition(offset, ip) == cfg.xp[offset + ip + 1]

\* wp.dataPtr() + offset, read at ip
weight_at(offset, ip) == cfg.wp[offset + ip + 1]

\* ion_lev, read at ip; a null pointer for a species that is not ionizable
ion_lev_at(a, ip) == IF a.ionizable THEN cfg.ion[ip + 1] ELSE 1

\* the charge the particle carries
particle_charge(a, ip) ==
    cfg.charge * weight_at(a.offset, ip) * ion_lev_at(a, ip)

\* the stencil of particle ip: leftmost point written and the weights
particle_stencil(a, lo, ip) ==
    LET dx == CellSize
        xn == 2 * (GetPosition(a.offset, ip) - xyzmin(lo))
                - (IF cfg.rho_type = CELL THEN dx ELSE 0)
        sf == compute_shape_factor(cfg.particle_shape, xn, 2 * dx)
    IN  [first |-> lo + sf.i, sx |-> sf.sx]

\* the points the stencil writes
stencil_points(st) == st.first .. (st.first + Len(st.sx) - 1)

\* data of one component after the adds of one stencil; an add to a point
\* outside the box the data covers does not land in it
scatter(data, st, wq) ==
    [c \in DOMAIN data |->
        IF c \in stencil_points(st)
        THEN data[c] + st.sx[c - st.first + 1] * wq
        ELSE data[c]]

\* whether some add of the stencil is outside box b
out_of_box(st, b) == \E c \in stencil_points(st) : ~ contains(b, c)

\* a merge that adds nothing
lockAdd_nothing(field, src, b, destcomp, nc) == field

\* a lock that never makes a thread wait
lock_ignored(l) == TRUE

\* line 200, lockAdd: the add waits until the lock of the FArrayBox is free
lock_free(l) == l = nullopt

\* a lock that stays with the thread that took it
unlock_forgotten(l, t) == l

\* line 200, lockAdd: the lock is released after the add
unlock(l, t) == nullopt

\* FArrayBox::lockAdd(src, tb, tb, 0, destcomp, nc) into rho
lockAdd(field, src, b, destcomp, nc) ==
    [n \in DOMAIN field |->
        IF n \in destcomp .. (destcomp + nc - 1)
        THEN [c \in DOMAIN field[n] |->
                 IF contains(b, c)
                 THEN field[n][c] + src.data[n - destcomp][c]
                 ELSE field[n][c]]
        ELSE field[n]]

(***************************************************************************)
(* Inputs.                                                                 *)
(***************************************************************************)
\* supported shape orders (lines 178-194)
Orders == 1..4

\* refinement ratios between lev and lev-1
RefRatios == {2, 4}

\* the positions of the cell c of lev
PositionsIn(cells) ==
    { c * SubPerCell + s : c \in cells, s \in 0..(SubPerCell - 1) }

\* every cell a particle of the tile may be in: the tile and MaxGuard cells
\* on either side
AllCells == Cells(grow(TileBox, MaxGuard))

\* particle batches: positions, weights and ionization levels of the tile
Batches(lens, P, W, L) ==
    UNION { [xp : [1..n -> P], wp : [1..n -> W], ion : [1..n -> L]] :
            n \in lens }

Configurations(targets, orders, types, grows, ratios, charges, batches) ==
    { [gpu |-> g, particle_shape |-> o, rho_type |-> t, nGrow |-> ng,
       ncomp |-> 1, crse_ratio |-> r, charge |-> q,
       xp |-> b.xp, wp |-> b.wp, ion |-> b.ion] :
      g \in targets, o \in orders, t \in types, ng \in grows,
      r \in ratios, q \in charges, b \in batches }

Arguments(guards, levels, ratios, offsets, counts, ions) ==
    [num_rho_deposition_guards : guards, depos_lev : levels,
     rel_ref_ratio : ratios, offset : offsets, np_to_deposit : counts,
     icomp : {0}, nc : {1}, ionizable : ions]

\* The caller hands over the field of the level it asks to deposit to: when
\* the level asked for is lev or lev-1, rho is the field of that level.
consistent(a) ==
    LET dlev == IF a.depos_lev.has_value THEN a.depos_lev.value ELSE Lev
    IN  dlev \in {Lev - 1, Lev} => dlev = RhoLev

NoArguments ==
    [num_rho_deposition_guards |-> nullopt, depos_lev |-> nullopt,
     rel_ref_ratio |-> nullopt, offset |-> 0, np_to_deposit |-> nullopt,
     icomp |-> 0, nc |-> 1, ionizable |-> FALSE]

\* thread 0 runs the call in view, the others run concurrent calls
Threads == 0..MaxOthers

\* a thread that is not in lockAdd
NoMerge == [pc |-> "none", scratch |-> [box |-> Box(0, -1), data |-> << >>],
            at |-> 0, tmp |-> 0]

\* no particle container is being converted and no diagnostic exists
NoContainer == [mass |-> 0, levels |-> << >>, before |-> << >>, calls |-> << >>]

NoDiag == [built |-> FALSE]

NoLocals ==
    [ng_rho |-> 0, np |-> 0, dlev |-> 0, ratio |-> 0, shape_extent |-> 0,
     range |-> 0, tilebox |-> Box(0, 0), tb |-> Box(0, 0), lo |-> 0, ip |-> 0]

InitCall(configurations, fills) ==
    /\ cfg \in configurations
    /\ \E f \in fills :
         rho = [n \in 0..(cfg.ncomp - 1) |-> [c \in Cells(RhoBox) |-> f]]
    /\ local_rho = zeroed(Box(0, -1), 0)
    /\ arg = NoArguments
    /\ loc = NoLocals
    /\ pc = "idle"
    /\ fail = "none"
    /\ hist = [rho_in |-> rho, read |-> {}, oob |-> FALSE, past |-> << >>,
               locks |-> 0, invoked |-> << >>]

\* the call runs alone: the lock is free and no other thread merges
InitWith(configurations, fills) ==
    /\ InitCall(configurations, fills)
    /\ lock = nullopt
    /\ merge = [t \in Threads |-> NoMerge]
    /\ container = NoContainer
    /\ diag = NoDiag

(***************************************************************************)
(* deposit_charge, in the order of its lines.                              *)
(***************************************************************************)
\* an entry without the empty return of line 101
\* the empty return placed before the argument assertions
entry_outcome_empty_first(f, np) ==
    IF np = 0 THEN "done" ELSE IF f # "none" THEN "abort" ELSE "check"

entry_outcome_without_empty_return(f, np) ==
    IF f # "none" THEN "abort" ELSE "check"

\* lines 74-101: where the call stands after the argument assertions (the
\* first failed one, f, aborts) and the return of line 101
entry_outcome(f, np) ==
    IF f # "none" THEN "abort" ELSE IF np = 0 THEN "done" ELSE "check"

\* lines 69-101: defaults, the four argument assertions, the empty return
Enter(a) ==
    /\ pc = "idle"
    /\ consistent(a)
    /\ arg' = a
    /\ fail' = entry_failure(a)
    /\ loc' = [NoLocals EXCEPT !.ng_rho = deposition_guards(a),
                               !.np = particles_to_deposit(a),
                               !.dlev = deposition_level(a),
                               !.ratio = refinement_ratio(a)]
    /\ pc' = entry_outcome(entry_failure(a), particles_to_deposit(a))
    /\ hist' = [hist EXCEPT !.rho_in = rho, !.read = {}, !.oob = FALSE,
                             !.locks = 0, !.invoked = << >>]
    /\ UNCHANGED << cfg, rho, local_rho, lock, merge, container, diag >>

\* lines 103-132: the shape extent, the range, the particle check
CheckParticles ==
    /\ pc = "check"
    /\ LET extent == shape_extent(cfg.particle_shape)
           rng    == guard_range(cfg.gpu, loc.ng_rho, extent)
       IN  /\ loc' = [loc EXCEPT !.shape_extent = extent, !.range = rng]
           /\ IF particles_fit(rng)
              THEN pc' = "boxes" /\ fail' = fail
              ELSE pc' = "abort" /\ fail' = "range"
    /\ UNCHANGED << cfg, rho, local_rho, arg, hist, lock, merge,
                 container, diag >>

\* lines 137-174: the tile boxes, rho_fab, the lower bound
PrepareBoxes ==
    /\ pc = "boxes"
    /\ LET tilebox == deposition_tilebox(loc.dlev, loc.ratio)
           tb      == staggered_tilebox(tilebox, loc.ng_rho)
       IN  /\ loc' = [loc EXCEPT !.tilebox = grow(tilebox, loc.ng_rho),
                                 !.tb = tb,
                                 !.lo = lbound(tilebox, loc.ng_rho),
                                 !.ip = 0]
           /\ local_rho' = IF cfg.gpu THEN local_rho ELSE zeroed(tb, arg.nc)
    /\ pc' = "kernel"
    /\ UNCHANGED << cfg, rho, arg, fail, hist, lock, merge,
                 container, diag >>

\* the particle arrays of the tile have the indices 0 .. numParticles - 1
index_in_tile(i) == 0 <= i /\ i < numParticles

\* a dispatch without the specialization of order 4
kernel_selected_below_4(nox) == nox \in 1..3

\* lines 178-194: one of the four kernels is selected by the shape order
kernel_selected(nox) == nox \in 1..4

\* lines 178-194: the specializations doChargeDepositionShapeN<k> that the
\* chain of if and else if invokes for shape order nox
dispatch(nox) ==
    IF nox = 1 THEN << 1 >>
    ELSE IF nox = 2 THEN << 2 >>
    ELSE IF nox = 3 THEN << 3 >>
    ELSE IF nox = 4 THEN << 4 >>
    ELSE << >>

\* lines 178-194: the kernel deposits particle ip into rho_fab, which is
\* local_rho on CPU and the alias of rho's components on GPU
DepositParticle ==
    /\ pc = "kernel"
    /\ kernel_selected(cfg.particle_shape)
    /\ loc.ip < loc.np
    /\ index_in_tile(arg.offset + loc.ip)
    /\ LET st == particle_stencil(arg, loc.lo, loc.ip)
           wq == particle_charge(arg, loc.ip)
           n0 == first_component(arg.icomp, arg.nc)
       IN  /\ IF cfg.gpu
              THEN /\ rho' = [rho EXCEPT ![n0] = scatter(@, st, wq)]
                   /\ local_rho' = local_rho
              ELSE /\ local_rho' =
                        [local_rho EXCEPT !.data[0] = scatter(@, st, wq)]
                   /\ rho' = rho
           /\ hist' = [hist EXCEPT
                         !.read = @ \cup {arg.offset + loc.ip},
                         !.oob = @ \/ out_of_box(st, IF cfg.gpu THEN RhoBox
                                                     ELSE loc.tb)]
    /\ loc' = [loc EXCEPT !.ip = @ + 1]
    /\ UNCHANGED << cfg, arg, pc, fail, lock, merge,
                 container, diag >>

\* An add of the kernel outside the box of rho_fab is undefined behaviour:
\* either the stray add lands in memory that is not the field's (it is lost
\* to the field, DepositParticle records it in hist.oob), or the access
\* faults and the process dies in the kernel.
KernelFault ==
    /\ pc = "kernel"
    /\ kernel_selected(cfg.particle_shape)
    /\ loc.ip < loc.np
    /\ index_in_tile(arg.offset + loc.ip)
    /\ out_of_box(particle_stencil(arg, loc.lo, loc.ip),
                  IF cfg.gpu THEN RhoBox ELSE loc.tb)
    /\ pc' = "fault"
    /\ hist' = [hist EXCEPT !.oob = TRUE]
    /\ UNCHANGED << cfg, rho, local_rho, arg, loc, fail, lock, merge,
                 container, diag >>

\* the kernel returns: to the merge on CPU, to the caller on GPU
KernelReturns ==
    /\ pc = "kernel"
    /\ (~ kernel_selected(cfg.particle_shape)) \/ loc.ip >= loc.np
    /\ pc' = IF cfg.gpu THEN "done" ELSE "merge"
    /\ hist' = [hist EXCEPT !.invoked = dispatch(cfg.particle_shape)]
    /\ UNCHANGED << cfg, rho, local_rho, arg, loc, fail, lock, merge,
                 container, diag >>

\* lines 197-202: local_rho is added into rho under the lock
\* with no other thread in view: the lock is taken, the add is done and the
\* lock is released in one step
Accumulate ==
    /\ pc = "merge"
    /\ lock_free(lock)
    /\ rho' = lockAdd(rho, local_rho, loc.tb,
                      first_component(arg.icomp, arg.nc), arg.nc)
    /\ pc' = "done"
    /\ hist' = [hist EXCEPT !.locks = @ + 1]
    /\ UNCHANGED << cfg, local_rho, arg, loc, fail, lock, merge,
                 container, diag >>

\* A read of the kernel at an index outside the particle arrays of the tile
\* is undefined behaviour: the access faults, or it yields what the memory
\* there holds, here the position and the weight of some particle q.
StrayRead ==
    /\ pc = "kernel"
    /\ kernel_selected(cfg.particle_shape)
    /\ loc.ip < loc.np
    /\ ~ index_in_tile(arg.offset + loc.ip)
    /\ hist' = [hist EXCEPT !.read = @ \cup {arg.offset + loc.ip}]
    /\ \/ /\ pc' = "fault"
          /\ UNCHANGED << rho, local_rho, loc >>
       \/ \E q \in 0..(numParticles - 1) :
             LET there == [arg EXCEPT !.offset = q - loc.ip]
                 st == particle_stencil(there, loc.lo, loc.ip)
                 wq == particle_charge(there, loc.ip)
                 n0 == first_component(arg.icomp, arg.nc)
             IN  /\ IF cfg.gpu
                    THEN /\ rho' = [rho EXCEPT ![n0] = scatter(@, st, wq)]
                         /\ local_rho' = local_rho
                    ELSE /\ local_rho' =
                              [local_rho EXCEPT !.data[0] = scatter(@, st, wq)]
                         /\ rho' = rho
                 /\ loc' = [loc EXCEPT !.ip = @ + 1]
                 /\ pc' = pc
    /\ UNCHANGED << cfg, arg, fail, lock, merge,
                 container, diag >>

Steps == CheckParticles \/ PrepareBoxes \/ DepositParticle \/ KernelReturns
           \/ Accumulate

(***************************************************************************)
(* Spec: one call with every combination of the optional arguments, for    *)
(* every shape order and both execution targets, on a fine or a coarse     *)
(* nodal field whose allocated guard is one less than MaxGuard, holding a  *)
(* non-zero value; the particles sit in the middle of the tile or one cell *)
(* outside of it.                                                          *)
(***************************************************************************)
ArgCells == {-1, 1}

ArgPositions == { c * SubPerCell + (SubPerCell \div 2) : c \in ArgCells }

Init ==
    InitWith(Configurations(BOOLEAN, Orders, {NODE}, {MaxGuard - 1},
                            {1, 2}, {2},
                            Batches(0..MaxParticles, ArgPositions, {1}, {1})),
             {1})

Call ==
    /\ pc = "idle"
    /\ \E a \in Arguments(Optional(1..MaxGuard),
                          Optional((Lev - 2)..(Lev + 1)),
                          Optional({cfg.crse_ratio}),
                          0..(numParticles + 1),
                          Optional(0..(numParticles + 1)),
                          {FALSE}) : Enter(a)

Next == Call \/ Steps

Spec == Init /\ [][Next]_vars

(***************************************************************************)
(* SpecGuard: one call that deposits the whole tile, one particle anywhere *)
(* in the tile or its guard region, for every shape order, staggering,     *)
(* allocated guard, guard override, refinement ratio and execution target. *)
(***************************************************************************)
InitGuard ==
    InitWith(Configurations(BOOLEAN, Orders, {NODE, CELL}, 0..MaxGuard,
                            {1} \cup RefRatios, {2},
                            Batches({1}, PositionsIn(AllCells), {1}, {1})),
             {0})

CallGuard ==
    /\ pc = "idle"
    /\ \E a \in Arguments(Optional(0..(MaxGuard + 1)),
                          {Some(RhoLev)},
                          {Some(cfg.crse_ratio)},
                          {0},
                          {nullopt},
                          {FALSE}) : Enter(a)

NextGuard == CallGuard \/ Steps \/ KernelFault

SpecGuard == InitGuard /\ [][NextGuard]_vars

(***************************************************************************)
(* SpecCharge: one call on a zero field of the same level with the full    *)
(* guard, for every shape order, staggering and execution target; the tile *)
(* holds MaxParticles particles in its first or last cell with weights and *)
(* ionization levels 1 or 2; the call deposits any sub-range of them, of   *)
(* an ionizable species or not.                                            *)
(***************************************************************************)
ChargeCells == {0, TileHi}

ChargePositions == { c * SubPerCell + (SubPerCell \div 2) : c \in ChargeCells }

InitCharge ==
    InitWith(Configurations(BOOLEAN, Orders, {NODE, CELL}, {MaxGuard}, {1},
                            {2},
                            Batches({MaxParticles}, ChargePositions,
                                    {1, 2}, {1, 2})),
             {0})

CallCharge ==
    /\ pc = "idle"
    /\ \E a \in Arguments({nullopt}, {nullopt}, {nullopt},
                          0..(numParticles - 1),
                          Optional(1..numParticles),
                          BOOLEAN) : Enter(a)

NextCharge == CallCharge \/ Steps

SpecCharge == InitCharge /\ [][NextCharge]_vars

(***************************************************************************)
(* The caller between two calls.  hist.past keeps, for every call that has *)
(* returned, its arguments, the particles it was given and rho before and  *)
(* after it.                                                               *)
(***************************************************************************)
MaxCalls == 2

\* the record of the call that has just returned
returned_call ==
    [arg |-> arg, np |-> loc.np, lo |-> loc.lo, xp |-> cfg.xp, wp |-> cfg.wp,
     ion |-> cfg.ion, rho_in |-> hist.rho_in, rho_out |-> rho,
     den |-> Den, oob |-> hist.oob]

\* sequence s with the elements of the window [offset, offset + n)
\* rearranged by the permutation sigma of 1..n
permuted(s, offset, n, sigma) ==
    [p \in 1..Len(s) |->
        IF offset < p /\ p <= offset + n THEN s[offset + sigma[p - offset]]
        ELSE s[p]]

\* the particles of the batch the last call deposited are reordered, their
\* positions, weights and ionization levels together, and rho is put back
\* to what it was before that call
Reorder ==
    /\ pc = "done"
    /\ hist.past = << >>
    /\ \E sigma \in Permutations(1..loc.np) :
          cfg' = [cfg EXCEPT !.xp = permuted(@, arg.offset, loc.np, sigma),
                             !.wp = permuted(@, arg.offset, loc.np, sigma),
                             !.ion = permuted(@, arg.offset, loc.np, sigma)]
    /\ hist' = [hist EXCEPT !.past = << returned_call >>]
    /\ rho' = hist.rho_in
    /\ pc' = "idle"
    /\ UNCHANGED << local_rho, arg, loc, fail, lock, merge,
                 container, diag >>

\* the call is made again with the same arguments
CallAgain ==
    /\ pc = "idle"
    /\ hist.past # << >>
    /\ Enter(hist.past[1].arg)

(***************************************************************************)
(* SpecOrder: a tile of MaxParticles + 1 particles in the first or last    *)
(* cell of the tile, with ionization levels 1 or 2, on a zero nodal field  *)
(* of the same level with the full guard; a sub-range of at least two of   *)
(* them is deposited, the sub-range is reordered and deposited again.      *)
(***************************************************************************)
InitOrder ==
    InitWith(Configurations(BOOLEAN, Orders, {NODE}, {MaxGuard}, {1}, {2},
                            Batches({MaxParticles + 1}, ChargePositions,
                                    {1}, {1, 2})),
             {0})

CallOrder ==
    /\ pc = "idle"
    /\ hist.past = << >>
    /\ \E a \in Arguments({nullopt}, {nullopt}, {nullopt},
                          0..(numParticles - 2),
                          Optional(2..numParticles),
                          BOOLEAN) : Enter(a)

NextOrder == CallOrder \/ Steps \/ Reorder \/ CallAgain

SpecOrder == InitOrder /\ [][NextOrder]_vars

(***************************************************************************)
(* SpecUnit: one particle of weight 1 of a species of charge 1 anywhere in *)
(* the tile, deposited with the default arguments on a zero field of the   *)
(* same level with the full guard, for every shape order, staggering and   *)
(* execution target.                                                       *)
(***************************************************************************)
InitUnit ==
    InitWith(Configurations(BOOLEAN, Orders, {NODE, CELL}, {MaxGuard}, {1},
                            {1},
                            Batches({1}, PositionsIn(Cells(TileBox)),
                                    {1}, {1})),
             {0})

CallUnit ==
    /\ pc = "idle"
    /\ \E a \in Arguments({nullopt}, {nullopt}, Optional({1}), {0},
                          Optional({1}), {FALSE}) : Enter(a)

NextUnit == CallUnit \/ Steps

SpecUnit == InitUnit /\ [][NextUnit]_vars

(***************************************************************************)
(* SpecCoarse: the particles of a tile of lev are deposited into the       *)
(* buffer of lev-1, with the refinement ratio, and then onto a zero field  *)
(* of lev itself with the same staggering and guard; for every shape       *)
(* order, staggering, guard, ratio and execution target, one particle of   *)
(* weight 1 or 2 anywhere in the tile or its guard region.                 *)
(***************************************************************************)
\* the caller turns from the buffer of lev-1 to a zero field of lev
TurnToFineLevel ==
    /\ pc = "done"
    /\ hist.past = << >>
    /\ cfg.crse_ratio # 1
    /\ cfg' = [cfg EXCEPT !.crse_ratio = 1]
    /\ rho' = [n \in 0..(cfg.ncomp - 1) |->
                 [c \in Cells(grow(convert(TileBox, cfg.rho_type), cfg.nGrow))
                    |-> 0]]
    /\ hist' = [hist EXCEPT !.past = << returned_call >>]
    /\ pc' = "idle"
    /\ UNCHANGED << local_rho, arg, loc, fail, lock, merge,
                 container, diag >>

\* the same particles are deposited at lev
CallFine ==
    /\ pc = "idle"
    /\ hist.past # << >>
    /\ Enter([hist.past[1].arg EXCEPT !.depos_lev = nullopt,
                                      !.rel_ref_ratio = nullopt])

InitCoarse ==
    InitWith(Configurations(BOOLEAN, Orders, {NODE, CELL}, 0..MaxGuard,
                            RefRatios, {2},
                            Batches({1}, PositionsIn(AllCells), {1, 2}, {1})),
             {0})

CallCoarse ==
    /\ pc = "idle"
    /\ hist.past = << >>
    /\ \E a \in Arguments({nullopt}, {Some(Lev - 1)}, {Some(cfg.crse_ratio)},
                          {0}, {nullopt}, {FALSE}) : Enter(a)

NextCoarse ==
    CallCoarse \/ Steps \/ KernelFault \/ TurnToFineLevel \/ CallFine

SpecCoarse == InitCoarse /\ [][NextCoarse]_vars

(***************************************************************************)
(* SpecComp: one call on a field of MaxComp * MaxComp components holding a *)
(* non-zero value, for every component offset icomp below MaxComp and      *)
(* every component count nc up to MaxComp, so that the components the call *)
(* addresses all exist; one particle anywhere in the tile, every shape     *)
(* order and both execution targets.                                       *)
(***************************************************************************)
MaxComp == 2

InitComp ==
    InitWith({ [c EXCEPT !.ncomp = MaxComp * MaxComp] :
               c \in Configurations(BOOLEAN, Orders, {NODE}, {MaxGuard}, {1},
                                    {2},
                                    Batches({1}, PositionsIn(Cells(TileBox)),
                                            {1}, {1})) },
             {1})

CallComp ==
    /\ pc = "idle"
    /\ \E a \in Arguments({nullopt}, {nullopt}, {nullopt}, {0}, {nullopt},
                          {FALSE}) :
          \E i \in 0..(MaxComp - 1), n \in 1..MaxComp :
             Enter([a EXCEPT !.icomp = i, !.nc = n])

NextComp == CallComp \/ Steps

SpecComp == InitComp /\ [][NextComp]_vars

(***************************************************************************)
(* SpecSplit: the particles of a tile are deposited in two calls onto the  *)
(* same field, the first k by the first call and the rest by the second,   *)
(* for every split point k.  The particles have the weights 1, 2, ... in   *)
(* the order of the tile and sit in cells 1 and 2; the field is            *)
(* cell-centred without guard or with the full guard, of the same level or *)
(* coarser by 4, and holds a non-zero value.                               *)
(***************************************************************************)
\* deposit_charge has returned to its caller, which keeps what it saw
Return ==
    /\ pc = "done"
    /\ Len(hist.past) < MaxCalls - 1
    /\ hist' = [hist EXCEPT !.past = Append(@, returned_call)]
    /\ pc' = "idle"
    /\ UNCHANGED << cfg, rho, local_rho, arg, loc, fail, lock, merge,
                 container, diag >>

SplitBatches ==
    { [xp |-> x, wp |-> [i \in 1..MaxParticles |-> i],
       ion |-> [i \in 1..MaxParticles |-> 1]] :
      x \in [1..MaxParticles -> PositionsIn({1, 2})] }

InitSplit ==
    InitWith(Configurations(BOOLEAN, Orders, {CELL}, {0, MaxGuard}, {1, 4},
                            {2}, SplitBatches),
             {1})

CallSplitFirst ==
    /\ pc = "idle"
    /\ hist.past = << >>
    /\ \E a \in Arguments({nullopt}, {Some(RhoLev)}, {Some(cfg.crse_ratio)},
                          {0}, { Some(k) : k \in 0..numParticles },
                          {FALSE}) : Enter(a)

CallSplitRest ==
    /\ pc = "idle"
    /\ hist.past # << >>
    /\ LET k == hist.past[1].np
       IN  Enter([hist.past[1].arg EXCEPT
                     !.offset = k,
                     !.np_to_deposit = Some(numParticles - k)])

NextSplit == CallSplitFirst \/ Steps \/ KernelFault \/ Return \/ CallSplitRest

SpecSplit == InitSplit /\ [][NextSplit]_vars

(***************************************************************************)
(* SpecLock: the call on the CPU target with other threads in view.  Every *)
(* other thread runs a call of deposit_charge on a neighbouring tile of    *)
(* the same FArrayBox and has come to its lockAdd with a scratch buffer of *)
(* its own, whose box overlaps the box of this call's scratch buffer and   *)
(* the boxes of the other threads.  lockAdd is seen in its steps: the lock *)
(* is taken, every cell of the box is read and then written, the lock is   *)
(* released.  The fields have one component.                               *)
(***************************************************************************)
\* the scratch buffer a thread merges: local_rho over tb for the call in view
MergeScratch(t) ==
    IF t = 0 THEN [box |-> loc.tb, data |-> local_rho.data[0]]
    ELSE merge[t].scratch

\* line 200: the thread has come to lockAdd; the other threads come to
\* theirs at any time from the entry of the call in view on
AtLockAdd(t) ==
    IF t = 0 THEN pc = "merge" /\ merge[0].pc = "none"
    ELSE pc # "idle" /\ merge[t].pc = "away"

\* line 200, lockAdd: the lock of rho's FArrayBox is taken
LockAcquire(t) ==
    /\ AtLockAdd(t)
    /\ lock_free(lock)
    /\ lock' = Some(t)
    /\ merge' = [merge EXCEPT
                   ![t].pc = IF MergeScratch(t).box.lo > MergeScratch(t).box.hi
                             THEN "unlock" ELSE "read",
                   ![t].at = MergeScratch(t).box.lo]
    /\ hist' = IF t = 0 THEN [hist EXCEPT !.locks = @ + 1] ELSE hist
    /\ UNCHANGED << cfg, rho, local_rho, arg, loc, pc, fail,
                 container, diag >>

\* line 200, lockAdd: the value of the next cell of rho is read
ReadCell(t) ==
    /\ merge[t].pc = "read"
    /\ merge' = [merge EXCEPT
                   ![t].tmp = rho[first_component(arg.icomp, arg.nc)]
                                 [merge[t].at],
                   ![t].pc = "write"]
    /\ UNCHANGED << cfg, rho, local_rho, arg, loc, pc, fail, hist, lock,
                 container, diag >>

\* line 200, lockAdd: the value read plus the scratch value is written back
WriteCell(t) ==
    /\ merge[t].pc = "write"
    /\ rho' = [rho EXCEPT ![first_component(arg.icomp, arg.nc)]
                             [merge[t].at] =
                 merge[t].tmp + MergeScratch(t).data[merge[t].at]]
    /\ merge' = [merge EXCEPT
                   ![t].at = @ + 1,
                   ![t].pc = IF merge[t].at = MergeScratch(t).box.hi
                             THEN "unlock" ELSE "read"]
    /\ UNCHANGED << cfg, local_rho, arg, loc, pc, fail, hist, lock,
                 container, diag >>

\* lines 200-202: the lock is released, lockAdd returns, and with it the
\* call of deposit_charge
LockRelease(t) ==
    /\ merge[t].pc = "unlock"
    /\ lock' = unlock(lock, t)
    /\ merge' = [merge EXCEPT ![t].pc = "done"]
    /\ pc' = IF t = 0 THEN "done" ELSE pc
    /\ UNCHANGED << cfg, rho, local_rho, arg, loc, fail, hist,
                 container, diag >>

lockAdd_steps ==
    \E t \in Threads :
       LockAcquire(t) \/ ReadCell(t) \/ WriteCell(t) \/ LockRelease(t)

\* the scratch buffer of thread t: two cells at the upper end of the tile
OtherScratch(t) ==
    [box  |-> Box(TileHi + t - 1, TileHi + t),
     data |-> [c \in (TileHi + t - 1)..(TileHi + t) |-> t]]

InitLock ==
    /\ InitCall(Configurations({FALSE}, Orders, {NODE}, {MaxGuard}, {1}, {2},
                               Batches({1},
                                       PositionsIn({TileHi - 1, TileHi,
                                                    TileHi + MaxGuard + 1}),
                                       {1}, {1})),
                {1})
    /\ lock = nullopt
    /\ merge = [t \in Threads |->
                  IF t = 0 THEN NoMerge
                  ELSE [NoMerge EXCEPT !.pc = "away",
                                       !.scratch = OtherScratch(t)]]
    /\ container = NoContainer
    /\ diag = NoDiag

CallLock ==
    /\ pc = "idle"
    /\ \E a \in Arguments({nullopt}, {nullopt}, {nullopt}, {0},
                          Optional({0}), {FALSE}) : Enter(a)

NextLock ==
    \/ CallLock
    \/ CheckParticles \/ PrepareBoxes \/ DepositParticle \/ KernelReturns
    \/ lockAdd_steps

SpecLock == InitLock /\ [][NextLock]_vars

(***************************************************************************)
(* SpecScratch: the caller hands the CPU call a scratch buffer that it has *)
(* used before: empty, smaller or larger than the call needs, with one or  *)
(* more components, holding zeros or other values.  The call deposits one  *)
(* particle with nc from 1 to MaxComp components at component 0, on the    *)
(* level of the particles or on the coarser one, with every guard override.*)
(***************************************************************************)
UsedBuffers ==
    { [box |-> b, nc |-> n,
       data |-> [m \in 0..(n - 1) |-> [c \in Cells(b) |-> v]]] :
      b \in {Box(0, -1), Box(1, 2), Box(-MaxGuard - 1, TileHi + MaxGuard + 2)},
      n \in 1..MaxComp, v \in {0, 5} }

\* the caller's earlier use of its scratch buffer
UseBuffer ==
    /\ pc = "idle"
    /\ local_rho = zeroed(Box(0, -1), 0)
    /\ local_rho' \in UsedBuffers
    /\ UNCHANGED << cfg, rho, arg, loc, pc, fail, hist, lock, merge,
                 container, diag >>

InitScratch ==
    InitWith({ [c EXCEPT !.ncomp = MaxComp] :
               c \in Configurations({FALSE}, Orders, {NODE, CELL}, {MaxGuard},
                                    {1, 2}, {2},
                                    Batches({1}, PositionsIn(Cells(TileBox)),
                                            {1}, {1})) },
             {1})

CallScratch ==
    /\ pc = "idle"
    /\ local_rho \in UsedBuffers
    /\ \E a \in Arguments(Optional(0..MaxGuard), {Some(RhoLev)},
                          {Some(cfg.crse_ratio)}, {0}, {nullopt}, {FALSE}) :
          \E n \in 1..MaxComp : Enter([a EXCEPT !.nc = n])

NextScratch == UseBuffer \/ CallScratch \/ Steps

SpecScratch == InitScratch /\ [][NextScratch]_vars

(***************************************************************************)
(* SpecTwice: two successive calls deposit one particle each onto the same *)
(* cell-centred field with one guard cell, of the level of the particles   *)
(* or coarser by 4, with the allocated guard or a guard override of 0; the *)
(* field holds a non-zero value before the first call.                     *)
(***************************************************************************)
InitTwice ==
    InitWith(Configurations(BOOLEAN, Orders, {CELL}, {1}, {1, 4}, {2},
                            SplitBatches),
             {1})

CallTwice ==
    /\ pc = "idle"
    /\ \E a \in Arguments(Optional({0}), {Some(RhoLev)},
                          {Some(cfg.crse_ratio)}, 0..(numParticles - 1),
                          {Some(1)}, {FALSE}) : Enter(a)

NextTwice == CallTwice \/ Steps \/ KernelFault \/ Return

SpecTwice == InitTwice /\ [][NextTwice]_vars

(***************************************************************************)
(* SpecDispatch: one call for every shape order from 0 to 5, of which 1 to *)
(* 4 have a kernel, on both execution targets; the nodal field has the     *)
(* full guard and holds a non-zero value, the particles are in cells 1, 2. *)
(***************************************************************************)
InitDispatch ==
    InitWith(Configurations(BOOLEAN, 0..5, {NODE}, {MaxGuard}, {1}, {2},
                            Batches(1..MaxParticles,
                                    PositionsIn({1, 2}), {1}, {1})),
             {1})

CallDispatch ==
    /\ pc = "idle"
    /\ \E a \in Arguments({nullopt}, {nullopt}, {nullopt}, {0},
                          Optional(0..numParticles), {FALSE}) : Enter(a)

NextDispatch == CallDispatch \/ Steps

SpecDispatch == InitDispatch /\ [][NextDispatch]_vars

(***************************************************************************)
(* SpecBox: one call onto a field of the particles' level, with no ratio   *)
(* or with a ratio of 1, 2 or 4 supplied all the same, or onto a field of  *)
(* the coarser level with its ratio of 2 or 4; shape orders 1 and 2, both  *)
(* staggerings and execution targets, the allocated guard or one less.     *)
(***************************************************************************)
InitBox ==
    InitWith(Configurations(BOOLEAN, {1, 2}, {NODE, CELL}, {MaxGuard},
                            {1} \cup RefRatios, {2},
                            Batches({1}, PositionsIn({1, 2}), {1}, {1})),
             {1})

CallBox ==
    /\ pc = "idle"
    /\ \E a \in Arguments(Optional({MaxGuard - 1}), Optional({RhoLev}),
                          IF RhoLev = Lev THEN Optional({1} \cup RefRatios)
                          ELSE Optional({cfg.crse_ratio}),
                          {0}, {nullopt}, {FALSE}) : Enter(a)

NextBox == CallBox \/ Steps

SpecBox == InitBox /\ [][NextBox]_vars

(***************************************************************************)
(* SpecIndex: one call with every offset from -1 to the number of          *)
(* particles and every count from -1 to one more than that number, or no   *)
(* count; shape orders 1 and 2 on both execution targets, on a nodal field *)
(* with the full guard; the particles are in cells 1 and 2.                *)
(***************************************************************************)
InitIndex ==
    InitWith(Configurations(BOOLEAN, {1, 2}, {NODE}, {MaxGuard}, {1}, {2},
                            Batches(0..MaxParticles, PositionsIn({1, 2}),
                                    {1, 2}, {1})),
             {1})

CallIndex ==
    /\ pc = "idle"
    /\ \E a \in Arguments({nullopt}, {nullopt}, {nullopt},
                          (-1)..numParticles,
                          Optional((-1)..(numParticles + 1)),
                          {FALSE}) : Enter(a)

NextIndex == CallIndex \/ Steps \/ StrayRead

SpecIndex == InitIndex /\ [][NextIndex]_vars

(***************************************************************************)
(* amrex::ParticleReal: a binary floating-point number m * 2^e with a      *)
(* significand of MantissaBits bits, 2^(MantissaBits-1) <= |m| <           *)
(* 2^MantissaBits, or zero; every operation rounds its exact result to the *)
(* nearest such number, ties to the even significand.  The exponent is not *)
(* bounded: overflow and underflow are not modelled.                       *)
(***************************************************************************)
Abs(n) == IF n < 0 THEN 0 - n ELSE n

Sign(n) == IF n < 0 THEN -1 ELSE 1

\* the number of bits to drop from the natural number n to fit the significand
ExcessBits(n) ==
    CHOOSE k \in 0..(3 * MantissaBits + 4) :
       /\ n < 2^(MantissaBits + k)
       /\ k > 0 => n >= 2^(MantissaBits + k - 1)

\* the number of bits to append to the natural number n > 0 to fill it
MissingBits(n) ==
    CHOOSE k \in 0..MantissaBits :
       /\ n * 2^k < 2^MantissaBits
       /\ n * 2^k >= 2^(MantissaBits - 1)

\* n * 2^e rounded to the nearest ParticleReal, ties to even
fl(n, e) ==
    IF n = 0 THEN [m |-> 0, e |-> 0]
    ELSE IF Abs(n) < 2^(MantissaBits - 1)
    THEN [m |-> n * 2^MissingBits(Abs(n)), e |-> e - MissingBits(Abs(n))]
    ELSE LET k  == ExcessBits(Abs(n))
             q  == Abs(n) \div 2^k
             r  == Abs(n) % 2^k
             up == 2 * r > 2^k \/ (2 * r = 2^k /\ q % 2 = 1)
             qq == IF up THEN q + 1 ELSE q
         IN  IF qq = 2^MantissaBits
             THEN [m |-> Sign(n) * 2^(MantissaBits - 1), e |-> e + k + 1]
             ELSE [m |-> Sign(n) * qq, e |-> e + k]

\* a * b in ParticleReal
fmul(a, b) == fl(a.m * b.m, a.e + b.e)

\* 1 / b in ParticleReal, b # 0: the quotient to 2 * MantissaBits + 2
\* fraction bits with a sticky bit for the remainder
finv(b) ==
    LET w == 2 * MantissaBits + 2
        q == 2^w \div Abs(b.m)
        r == 2^w % Abs(b.m)
    IN  fl(Sign(b.m) * (2 * q + (IF r > 0 THEN 1 ELSE 0)), 0 - w - 1 - b.e)

\* the ParticleReal that the integer n is or rounds to
Real(n) == fl(n, 0)

(***************************************************************************)
(* particlesConvertUnits (Source/Particles/ParticleIO.H)                   *)
(***************************************************************************)
\* a conversion factor that is the mass in both directions
factor_mass(convert_direction, mass) == mass

\* lines 45-52: the conversion factor
factor(convert_direction, mass) ==
    IF convert_direction = "WarpX_to_SI" THEN mass
    ELSE IF convert_direction = "SI_to_WarpX" THEN finv(mass)
    ELSE Real(1)

\* lines 74-78: the momenta of one particle are multiplied by the factor
converted(p, f) ==
    [p EXCEPT !.ux = fmul(@, f), !.uy = fmul(@, f), !.uz = fmul(@, f)]

\* lines 39-82: every particle of every tile of every level 0..finestLevel
particlesConvertUnits(convert_direction) ==
    /\ container # NoContainer
    /\ Len(container.calls) < MaxCalls
    /\ LET f == factor(convert_direction, container.mass)
       IN  container' =
              [container EXCEPT
                 !.levels = [lev \in DOMAIN container.levels |->
                               [i \in DOMAIN container.levels[lev] |->
                                  converted(container.levels[lev][i], f)]],
                 !.calls = Append(@, convert_direction)]
    /\ UNCHANGED deposit_vars
    /\ UNCHANGED diag

(***************************************************************************)
(* SpecConvert: a particle container with the levels 0..Lev, one particle  *)
(* on every level, is converted up to MaxCalls times in either direction.  *)
(* Masses and momenta are small integers, the momenta of either sign or    *)
(* zero and different in the three components.                             *)
(***************************************************************************)
ConvertDirection == {"WarpX_to_SI", "SI_to_WarpX"}

Masses == { Real(n) : n \in {1, 3, 5, 7} }

ConvertParticles ==
    { [x |-> Real(2), w |-> Real(3),
       ux |-> Real(u), uy |-> Real(0 - 3), uz |-> Real(v)] :
      u \in {1, 5, 7}, v \in {0, 6} }

\* deposit_charge is not running
DepositIdle ==
    InitCall(Configurations({FALSE}, {1}, {NODE}, {MaxGuard}, {1}, {2},
                            Batches({0}, {0}, {1}, {1})),
             {0})
    /\ lock = nullopt
    /\ merge = [t \in Threads |-> NoMerge]

InitConvert ==
    /\ DepositIdle
    /\ diag = NoDiag
    /\ \E mass \in Masses :
       \E lv \in [0..Lev -> [1..1 -> ConvertParticles]] :
          container = [mass |-> mass, levels |-> lv, before |-> lv,
                       calls |-> << >>]

NextConvert ==
    \E convert_direction \in ConvertDirection :
       particlesConvertUnits(convert_direction)

SpecConvert == InitConvert /\ [][NextConvert]_vars

(***************************************************************************)
(* ParticleExtrema (Source/Diagnostics/ReducedDiags/ParticleExtrema.cpp)   *)
(* Reals are integers here: the diagnostic compares and copies values and  *)
(* multiplies them by the mass.  The speed of light is 1.                  *)
(***************************************************************************)
\* std::numeric_limits<Real>::max(), with which a minimum starts
RealMax == 1000

\* std::numeric_limits<Real>::lowest(), with which a maximum starts
RealLowest == 0 - RealMax

\* amrex::ReduceMin over the values a quantity has on the particles of a
\* species: r = max(), then r = min(r, value) for every particle
ReduceMin(vals) ==
    CHOOSE v \in vals \cup {RealMax} : \A u \in vals \cup {RealMax} : v <= u

\* amrex::ReduceMax: r = lowest(), then r = max(r, value)
ReduceMax(vals) ==
    CHOOSE v \in vals \cup {RealLowest} :
       \A u \in vals \cup {RealLowest} : v >= u

\* std::sqrt, rounded down to a Real of the model
sqrt(n) == CHOOSE r \in 0..n : r * r <= n /\ (r + 1) * (r + 1) > n

\* lines 91-114 and 116-119: the calls of add_diag in their order, each
\* with its name and its header (name and unit)
add_diag_calls(do_qed, dim) ==
    << << "xmin", << "xmin", "(m)" >> >>,
       << "xmax", << "xmax", "(m)" >> >>,
       << "ymin", << "ymin", "(m)" >> >>,
       << "ymax", << "ymax", "(m)" >> >>,
       << "zmin", << "zmin", "(m)" >> >>,
       << "zmax", << "zmax", "(m)" >> >>,
       << "pxmin", << "pxmin", "(kg*m/s)" >> >>,
       << "pxmax", << "pxmax", "(kg*m/s)" >> >>,
       << "pymin", << "pymin", "(kg*m/s)" >> >>,
       << "pymax", << "pymax", "(kg*m/s)" >> >>,
       << "pzmin", << "pzmin", "(kg*m/s)" >> >>,
       << "pzmax", << "pzmax", "(kg*m/s)" >> >>,
       << "gmin", << "gmin", "()" >> >>,
       << "gmax", << "gmax", "()" >> >>,
       << "wmin", << "wmin", IF dim = "3D" THEN "()" ELSE "(1/m^2)" >> >>,
       << "wmax", << "wmax", IF dim = "3D" THEN "()" ELSE "(1/m^2)" >> >> >>
    \o (IF do_qed
        THEN << << "chimin", << "chimin", "()" >> >>,
                << "chimax", << "chimax", "()" >> >> >>
        ELSE << >>)

\* lines 85-89: add_diag gives the k-th name the index k - 1
headers_indices(calls) ==
    [name \in { calls[k][1] : k \in DOMAIN calls } |->
       LET k == CHOOSE j \in DOMAIN calls : calls[j][1] = name
       IN  [header |-> calls[k][2], idx |-> k - 1]]

\* lines 56-147: the constructor; the loop over the species does its body
\* for the species named m_species_name only
ParticleExtrema(sim, species_name, intervals) ==
    /\ ~ diag.built
    /\ LET chosen == species_name \in { sim.species_names[i] :
                                          i \in DOMAIN sim.species_names }
           calls  == IF chosen THEN add_diag_calls(sim.do_qed, sim.dim)
                     ELSE << >>
       IN  diag' = [built |-> TRUE, sim |-> sim,
                    m_species_name |-> species_name,
                    m_intervals |-> intervals,
                    m_headers_indices |-> headers_indices(calls),
                    m_data |-> [k \in DOMAIN calls |-> 0],
                    step |-> 0, before |-> << >>, writes |-> << >>,
                    particles |-> {}, computed |-> FALSE]
    /\ UNCHANGED deposit_vars
    /\ UNCHANGED container

\* a lookup that takes the maximum's place for every minimum
get_idx_of_max(name) ==
    LET other == CASE name = "xmin" -> "xmax" [] name = "ymin" -> "ymax"
                   [] name = "zmin" -> "zmax" [] name = "pxmin" -> "pxmax"
                   [] name = "pymin" -> "pymax" [] name = "pzmin" -> "pzmax"
                   [] name = "gmin" -> "gmax" [] name = "wmin" -> "wmax"
                   [] OTHER -> name
    IN  diag.m_headers_indices[other].idx

\* lines 472-474: get_idx
get_idx(name) == diag.m_headers_indices[name].idx

\* lines 187-346: the extrema of the chosen species, and lines 476-499:
\* the assignments to m_data in their order, as pairs of name and value
\* (the chi entries, computed from the fields, are written as 0)
extrema_assignments(ps) ==
    LET sim  == diag.sim
        m    == IF sim.is_photon THEN sim.m_e ELSE sim.mass
        g(p) == LET us == p.ux * p.ux + p.uy * p.uy + p.uz * p.uz
                IN  IF sim.is_photon THEN sqrt(us) ELSE sqrt(1 + us)
        xmin == IF sim.dim = "1D_Z" THEN 0 ELSE ReduceMin({ p.x : p \in ps })
        xmax == IF sim.dim = "1D_Z" THEN 0 ELSE ReduceMax({ p.x : p \in ps })
        ymin == IF sim.dim = "1D_Z" THEN 0 ELSE ReduceMin({ p.y : p \in ps })
        ymax == IF sim.dim = "1D_Z" THEN 0 ELSE ReduceMax({ p.y : p \in ps })
        zmin == ReduceMin({ p.z : p \in ps })
        zmax == ReduceMax({ p.z : p \in ps })
        uxmin == ReduceMin({ p.ux : p \in ps })
        uxmax == ReduceMax({ p.ux : p \in ps })
        uymin == ReduceMin({ p.uy : p \in ps })
        uymax == ReduceMax({ p.uy : p \in ps })
        uzmin == ReduceMin({ p.uz : p \in ps })
        uzmax == ReduceMax({ p.uz : p \in ps })
        gmin == ReduceMin({ g(p) : p \in ps })
        gmax == ReduceMax({ g(p) : p \in ps })
        wmin == ReduceMin({ p.w : p \in ps })
        wmax == ReduceMax({ p.w : p \in ps })
    IN  << << "xmin", xmin >>, << "xmax", xmax >>,
           << "ymin", ymin >>, << "ymax", ymax >>,
           << "zmin", zmin >>, << "zmax", zmax >>,
           << "pxmin", uxmin * m >>, << "pxmax", uxmax * m >>,
           << "pymin", uymin * m >>, << "pymax", uymax * m >>,
           << "pzmin", uzmin * m >>, << "pzmax", uzmax * m >>,
           << "gmin", gmin >>, << "gmax", gmax >>,
           << "wmin", wmin >>, << "wmax", wmax >> >>
        \o (IF sim.do_qed
            THEN << << "chimin", 0 >>, << "chimax", 0 >> >>
            ELSE << >>)

\* m_data after the first n assignments
RECURSIVE assigned(_, _, _)
assigned(data, as, n) ==
    IF n = 0 THEN data
    ELSE [assigned(data, as, n - 1) EXCEPT ![get_idx(as[n][1]) + 1] = as[n][2]]

\* lines 151-499: ComputeDiags(step) with the particles the species has now
ComputeDiags(step, ps) ==
    /\ diag.built
    /\ step = diag.step
    /\ step < MaxStep
    /\ LET does == (step + 1) \in diag.m_intervals
           chosen == diag.m_species_name \in
                        { diag.sim.species_names[i] :
                            i \in DOMAIN diag.sim.species_names }
           as == IF does /\ chosen THEN extrema_assignments(ps) ELSE << >>
       IN  diag' = [diag EXCEPT
                      !.m_data = assigned(@, as, Len(as)),
                      !.before = diag.m_data,
                      !.writes = [k \in DOMAIN as |-> get_idx(as[k][1])],
                      !.particles = ps,
                      !.computed = does,
                      !.step = step + 1]
    /\ UNCHANGED deposit_vars
    /\ UNCHANGED container

(***************************************************************************)
(* SpecExtrema: a diagnostic for a species that is the first or the second *)
(* of the simulation or none of them, massive or a photon, with or without *)
(* QED, in a 3D or a 1D build, with intervals that contain some of the     *)
(* steps 1..MaxStep; the species has any subset of MaxParticles             *)
(* particles when the diagnostic is computed, the empty one included.      *)
(***************************************************************************)
Simulations ==
    [species_names : { << "electrons", "ions" >> },
     dim : {"3D", "1D_Z"}, do_qed : BOOLEAN, is_photon : BOOLEAN,
     mass : {2}, m_e : {1}]

\* the k-th particle the species can have
extrema_particle(k) ==
    [x |-> k, y |-> 2 * k - 3, z |-> 0 - k,
     ux |-> k - 2, uy |-> 3 - k, uz |-> 2 * k, w |-> k + 1]

ParticleSets ==
    { { extrema_particle(k) : k \in S } : S \in SUBSET (1..MaxParticles) }

InitExtrema ==
    /\ DepositIdle
    /\ container = NoContainer
    /\ diag = NoDiag

NextExtrema ==
    \/ \E sim \in Simulations, name \in {"electrons", "ions", "muons"},
          intervals \in (SUBSET (1..MaxStep)) \ {{}} :
          ParticleExtrema(sim, name, intervals)
    \/ \E step \in 0..MaxStep, ps \in ParticleSets : ComputeDiags(step, ps)

SpecExtrema == InitExtrema /\ [][NextExtrema]_vars

(***************************************************************************)
(* What the claims speak of.                                               *)
(***************************************************************************)
\* the call has been entered
Entered == pc # "idle"

\* the call has ended: it returned, or an assertion aborted it
Returned == pc = "done"

Aborted == pc = "abort"

\* the particle indices the call was asked to deposit
RequestedRange == arg.offset .. (arg.offset + loc.np - 1)

\* what one stencil adds to point c
stencil_add(st, wq, c) ==
    IF c \in stencil_points(st) THEN st.sx[c - st.first + 1] * wq ELSE 0

\* what the first n particles of the call add to point c
RECURSIVE charge_added(_, _, _, _)
charge_added(a, lo, n, c) ==
    IF n <= 0 THEN 0
    ELSE charge_added(a, lo, n - 1, c)
           + stencil_add(particle_stencil(a, lo, n - 1),
                         particle_charge(a, n - 1), c)

\* rho at call entry plus what the np particles of the call add
FieldAfterDeposit ==
    [n \in DOMAIN hist.rho_in |->
        IF n = arg.icomp * arg.nc
        THEN [c \in DOMAIN hist.rho_in[n] |->
                 hist.rho_in[n][c] + charge_added(arg, loc.lo, loc.np, c)]
        ELSE hist.rho_in[n]]

\* the guard width the call works with, by the optional argument alone
GuardAsked ==
    IF arg.num_rho_deposition_guards.has_value
    THEN arg.num_rho_deposition_guards.value ELSE cfg.nGrow

\* the number of particles asked for, by the optional argument alone
CountAsked ==
    IF arg.np_to_deposit.has_value THEN arg.np_to_deposit.value
    ELSE Len(cfg.xp)

\* the level asked for, by the optional argument alone
LevelAsked == IF arg.depos_lev.has_value THEN arg.depos_lev.value ELSE Lev

\* the four fatal conditions on the arguments
GuardTooLarge == GuardAsked > cfg.nGrow

CountTooLarge == CountAsked + arg.offset > Len(cfg.xp)

LevelUnsupported == LevelAsked \notin {Lev - 1, Lev}

RatioMissing == (~ arg.rel_ref_ratio.has_value) /\ LevelAsked # Lev

ArgumentsFatal ==
    GuardTooLarge \/ CountTooLarge \/ LevelUnsupported \/ RatioMissing

\* the guard width available for writing: ng_rho in buffered-merge mode,
\* the allocated guard in direct-scatter mode
GuardAvailable(gpu) == IF gpu THEN cfg.nGrow ELSE GuardAsked

\* the fifth fatal condition: a particle of the tile is further from the
\* tile than the available guard less the extent of the shape
ParticleTooFar(gpu) ==
    \E p \in 1..Len(cfg.xp) :
       LET c == cfg.xp[p] \div SubPerCell
           r == GuardAvailable(gpu) - (cfg.particle_shape \div 2 + 1)
       IN  c < 0 - r \/ c > TileHi + r

\* the box the kernel may write: the box of local_rho in buffered-merge
\* mode, the allocated box of rho in direct-scatter mode
WriteRegion(gpu) ==
    IF gpu THEN RhoBox
    ELSE LET t == IF LevelAsked = Lev THEN TileBox
                  ELSE coarsen(TileBox, cfg.crse_ratio)
         IN  grow(convert(t, cfg.rho_type), GuardAsked)

\* the call has passed every check and is in or past the kernel
PastChecks == pc \in {"kernel", "merge", "done", "fault"}

\* the call ended without an abort: it returned or died in the kernel
EndedWithoutAbort == pc \in {"done", "fault"}

\* every add of every requested particle has landed in rho
WholeRangeDeposited ==
    /\ hist.read = RequestedRange
    /\ ~ hist.oob
    /\ rho = FieldAfterDeposit

\* the sum of a component's values
RECURSIVE SumOver(_, _)
SumOver(f, S) ==
    IF S = {} THEN 0
    ELSE LET c == CHOOSE x \in S : TRUE IN f[c] + SumOver(f, S \ {c})

FieldSum == SumOver(rho[0], DOMAIN rho[0])

\* weight x species charge x ionization level of particle p of the tile
\* (1-based), the level of a species that does not ionize being 1
ChargeOf(p) ==
    cfg.wp[p] * cfg.charge * (IF arg.ionizable THEN cfg.ion[p] ELSE 1)

RECURSIVE ChargeOfRange(_, _)
ChargeOfRange(first, n) ==
    IF n <= 0 THEN 0
    ELSE ChargeOf(first + n) + ChargeOfRange(first, n - 1)

(***************************************************************************)
(* C1. Every fatal condition of deposit_charge (guard override too large,  *)
(* count + offset beyond the batch, unsupported level, missing ratio,      *)
(* particle stencil not fitting the guard region) is detected before the   *)
(* first write to rho: a call that aborts leaves rho as it was at entry    *)
(* and has read no particle, and a call that ends without aborting had     *)
(* none of the four argument conditions and has deposited the whole        *)
(* requested range, every add landing in rho.                              *)
(***************************************************************************)
C1_FatalBeforeWrite ==
    /\ (Aborted \/ pc \in {"check", "boxes"}) =>
          rho = hist.rho_in /\ hist.read = {}
    /\ EndedWithoutAbort => (~ ArgumentsFatal) /\ WholeRangeDeposited

\* a call that returned although an add of its particle fell outside the
\* scratch buffer
C1_Witness == Returned /\ hist.oob /\ ~ cfg.gpu

(***************************************************************************)
(* C2. In every call that passes the particle check, every point the       *)
(* kernel writes lies inside the region available for writing: the box of  *)
(* the scratch buffer in buffered-merge mode, the allocated box of rho in  *)
(* direct-scatter mode; for every shape order and staggering.              *)
(***************************************************************************)
C2_StencilInsideRegion ==
    PastChecks =>
       \A ip \in 0..(loc.np - 1) :
          \A c \in stencil_points(particle_stencil(arg, loc.lo, ip)) :
             contains(WriteRegion(cfg.gpu), c)

\* the kernel of a direct-scatter call about to add outside the box of rho
C2_Witness ==
    /\ pc = "kernel" /\ cfg.gpu /\ loc.ip < loc.np
    /\ out_of_box(particle_stencil(arg, loc.lo, loc.ip), RhoBox)

(***************************************************************************)
(* C3, as claimed. The extent deposit_charge requires for shape order n    *)
(* is ceil(n/2) + 1: 2, 2, 3, 3 for n = 1..4.                              *)
(***************************************************************************)
C3_Original ==
    (PastChecks \/ fail = "range") =>
       /\ loc.shape_extent = (cfg.particle_shape + 1) \div 2 + 1
       /\ loc.shape_extent = << 2, 2, 3, 3 >>[cfg.particle_shape]

(***************************************************************************)
(* C3, amended. The extent deposit_charge requires for shape order n is    *)
(* n/2 + 1 in integer division, floor(n/2) + 1: 1, 2, 2, 3 for n = 1..4;   *)
(* the particle check subtracts exactly this from the available guard.     *)
(***************************************************************************)
C3_ShapeExtent ==
    (PastChecks \/ fail = "range") =>
       /\ loc.shape_extent = << 1, 2, 2, 3 >>[cfg.particle_shape]
       /\ loc.range = GuardAvailable(cfg.gpu) - loc.shape_extent

\* an order-1 call that returned, having required one cell
C3_Witness ==
    Returned /\ cfg.particle_shape = 1 /\ loc.shape_extent = 1 /\ loc.np = 1

(***************************************************************************)
(* C4. A non-empty call whose available guard width (ng_rho in             *)
(* buffered-merge mode, the allocated guard of rho in direct-scatter mode) *)
(* is smaller than the extent the shape order requires aborts, whatever    *)
(* the positions of the particles.                                         *)
(***************************************************************************)
C4_GuardBelowExtentAborts ==
    (/\ pc \in {"abort", "boxes", "kernel", "merge", "done", "fault"}
     /\ CountAsked # 0
     /\ GuardAvailable(cfg.gpu) < cfg.particle_shape \div 2 + 1) => Aborted

\* a buffered-merge call that returned with no guard at all, every add
\* inside the scratch buffer
C4_Witness ==
    /\ Returned /\ ~ cfg.gpu /\ loc.np = 1
    /\ loc.ng_rho = 0 /\ ~ hist.oob

(***************************************************************************)
(* C5. deposit_charge aborts for every target level other than lev and     *)
(* lev-1; an omitted target level is lev.                                  *)
(***************************************************************************)
C5_LevelChecked ==
    Entered =>
       /\ (arg.depos_lev.has_value
             /\ arg.depos_lev.value \notin {Lev - 1, Lev}) => Aborted
       /\ (~ arg.depos_lev.has_value) =>
             loc.dlev = Lev /\ fail \notin {"level", "ratio"}
       /\ fail = "level" => loc.dlev \notin {Lev - 1, Lev}

\* a call for level lev+1 aborted by the level assertion
C5_Witness ==
    Aborted /\ fail = "level" /\ arg.depos_lev = Some(Lev + 1)

(***************************************************************************)
(* C6. Without a refinement ratio the call aborts if the target level      *)
(* differs from lev and otherwise goes on with ratio 1; the ratio used is  *)
(* the one supplied, or 1.                                                 *)
(***************************************************************************)
C6_RatioChecked ==
    Entered =>
       /\ (~ arg.rel_ref_ratio.has_value) =>
             /\ LevelAsked # Lev => Aborted
             /\ LevelAsked = Lev => fail # "ratio"
             /\ loc.ratio = 1
       /\ arg.rel_ref_ratio.has_value => loc.ratio = arg.rel_ref_ratio.value
       /\ fail = "ratio" => RatioMissing

\* a call for level lev-1 without a ratio, aborted by the ratio assertion
C6_Witness ==
    /\ Aborted /\ fail = "ratio"
    /\ arg.depos_lev = Some(Lev - 1) /\ ~ arg.rel_ref_ratio.has_value

(***************************************************************************)
(* C7. deposit_charge aborts whenever count + offset exceeds the number of *)
(* particles of the tile, an omitted count being the number of particles   *)
(* of the tile; when count + offset is within it, the count assertion does *)
(* not abort.                                                              *)
(***************************************************************************)
C7_CountChecked ==
    Entered =>
       /\ CountTooLarge => Aborted
       /\ (~ CountTooLarge) => fail # "count"
       /\ loc.np = CountAsked

\* an omitted count with a positive offset, aborted by the count assertion
C7_Witness ==
    /\ Aborted /\ fail = "count"
    /\ ~ arg.np_to_deposit.has_value /\ arg.offset = 1 /\ Len(cfg.xp) = 2

(***************************************************************************)
(* C8, as claimed. A call with zero particles to deposit succeeds and      *)
(* leaves rho unchanged, whatever the other arguments.                     *)
(***************************************************************************)
C8_Original ==
    (Entered /\ CountAsked = 0) => (Returned /\ rho = hist.rho_in)

(***************************************************************************)
(* C8, amended. A call with zero particles to deposit leaves rho           *)
(* unchanged whatever the other arguments and the execution target; it     *)
(* ends at once, and succeeds exactly when the guard, count, level and     *)
(* ratio assertions hold, which are evaluated before the empty return; the *)
(* particle check is not run.                                              *)
(***************************************************************************)
C8_EmptyCall ==
    (Entered /\ CountAsked = 0) =>
       /\ rho = hist.rho_in
       /\ local_rho = zeroed(Box(0, -1), 0)
       /\ pc \in {"done", "abort"}
       /\ Returned <=> ~ ArgumentsFatal
       /\ fail # "range"

\* an empty call that returns although a particle of the tile is too far
\* out for the particle check
C8_Witness ==
    /\ Returned /\ CountAsked = 0
    /\ arg.np_to_deposit.has_value
    /\ ParticleTooFar(cfg.gpu)

(***************************************************************************)
(* C9. Conservation: from a zero field, after a call whose stencils all    *)
(* stay inside the written region, the sum of rho over all points is the   *)
(* sum over the deposited particles of weight x species charge x           *)
(* ionization level (the weights of one stencil sum to 1, ShapeDen in the  *)
(* units of the model); the total of two calls on adjoining patches is the *)
(* sum of these, whatever the split.                                       *)
(***************************************************************************)
C9_Conservation ==
    (Returned /\ ~ hist.oob) =>
       FieldSum = Den * ChargeOfRange(arg.offset, loc.np)

\* an ionizable species deposited from offset 1, the first two particles
\* of the tile at different ionization levels
C9_Witness ==
    /\ Returned /\ ~ hist.oob
    /\ arg.ionizable /\ arg.offset = 1 /\ loc.np = 1
    /\ cfg.ion[1] # cfg.ion[2]

\* The run of the call in either mode, computed from the operators of the
\* model.
\* whether the call in the given mode aborts
ModeAborts(gpu) ==
    \/ entry_failure(arg) # "none"
    \/ /\ particles_to_deposit(arg) # 0
       /\ ~ particles_fit(guard_range(gpu, deposition_guards(arg),
                                      shape_extent(cfg.particle_shape)))

\* rho after the call in the given mode has returned: the adds that land
\* in the box the mode writes
ModeField(gpu) ==
    LET t  == deposition_tilebox(deposition_level(arg), refinement_ratio(arg))
        ng == deposition_guards(arg)
        b  == IF gpu THEN RhoBox ELSE staggered_tilebox(t, ng)
        n0 == first_component(arg.icomp, arg.nc)
    IN  [n \in DOMAIN hist.rho_in |->
           IF n = n0
           THEN [c \in DOMAIN hist.rho_in[n] |->
                   hist.rho_in[n][c]
                     + (IF contains(b, c)
                        THEN charge_added(arg, lbound(t, ng),
                                          particles_to_deposit(arg), c)
                        ELSE 0)]
           ELSE hist.rho_in[n]]

(***************************************************************************)
(* C10. For the same field, batch, shape order and optional arguments the  *)
(* two modes have the same outcome: both abort or both succeed, and on     *)
(* success they leave the same value at every point of rho.                *)
(***************************************************************************)
C10_ModesAgree ==
    /\ pc \in {"abort", "done"} => (Aborted <=> ModeAborts(~ cfg.gpu))
    /\ (Returned /\ ~ ModeAborts(~ cfg.gpu)) => rho = ModeField(~ cfg.gpu)

\* a buffered-merge call that aborted where direct scatter would succeed
C10_Witness == Aborted /\ ~ cfg.gpu /\ ~ ModeAborts(TRUE)

\* the run of the model agrees with the computed run of its own mode
ModeConsistent ==
    /\ pc \in {"abort", "done"} => (Aborted <=> ModeAborts(cfg.gpu))
    /\ Returned => rho = ModeField(cfg.gpu)

\* the call that has returned is the second of two
SecondReturned == Returned /\ Len(hist.past) = 1

(***************************************************************************)
(* C11. Order-independence: for every permutation of the particles of the  *)
(* deposited batch (weights, positions and ionization levels permuted      *)
(* together) deposit_charge leaves the same value at every point of rho.   *)
(***************************************************************************)
C11_OrderIndependent ==
    (SecondReturned /\ hist.rho_in = hist.past[1].rho_in) =>
       rho = hist.past[1].rho_out

\* the reordered batch of an ionizable species deposited from offset 1
\* has returned, two particles at different points having changed places
C11_Witness ==
    /\ SecondReturned /\ arg.ionizable /\ arg.offset = 1 /\ loc.np = 2
    /\ cfg.xp[2] = hist.past[1].xp[3] /\ cfg.xp[3] = hist.past[1].xp[2]
    /\ cfg.xp[2] # cfg.xp[3]

\* the one particle of the tile is at the centre of cell c (the cells have
\* width SubPerCell in position units)
AtCentreOf(c) == Len(cfg.xp) = 1 /\ 2 * cfg.xp[1] = (2 * c + 1) * SubPerCell

\* the one particle of the tile is on node k
OnNode(k) == Len(cfg.xp) = 1 /\ cfg.xp[1] = k * SubPerCell

\* rho holds the fractions num[j]/den of a unit charge on the points
\* first, first + 1, ... and zero everywhere else (values are in units of
\* 1/Den)
HoldsFractions(first, num, den) ==
    \A c \in DOMAIN rho[0] :
       den * rho[0][c] =
          IF c >= first /\ c < first + Len(num)
          THEN num[c - first + 1] * Den ELSE 0

C12_WitnessCentre ==
    /\ Returned /\ cfg.rho_type = NODE
    /\ cfg.particle_shape = 2 /\ AtCentreOf(1)
    /\ 2 * rho[0][1] = Den /\ 2 * rho[0][2] = Den

(***************************************************************************)
(* C13. Level coarsening: depositing the particles of level L into a       *)
(* buffer of level L-1 with ratio r yields the same total charge as        *)
(* depositing them at level L and summing the resulting field over the     *)
(* fine cells of each coarse cell (the totals are compared as fractions,   *)
(* each field in units of its own 1/Den).                                  *)
(***************************************************************************)
C13_CoarseningKeepsTotal ==
    SecondReturned =>
       LET coarse == SumOver(hist.past[1].rho_out[0],
                             DOMAIN hist.past[1].rho_out[0])
       IN  /\ coarse % hist.past[1].den = 0
           /\ FieldSum % Den = 0
           /\ coarse \div hist.past[1].den = FieldSum \div Den

\* both deposits have returned, the first into a buffer coarser by 4 with
\* every add inside it
C13_Witness ==
    /\ SecondReturned /\ hist.past[1].arg.rel_ref_ratio = Some(4)
    /\ ~ hist.past[1].oob /\ FieldSum # 0

(***************************************************************************)
(* C14. deposit_charge with component offset icomp and component count nc  *)
(* deposits into the nc components of rho that start at component icomp    *)
(* and leaves every component outside [icomp, icomp + nc) unchanged, for   *)
(* every icomp >= 0 and nc >= 1.                                           *)
(***************************************************************************)
C14_ComponentRange ==
    Returned =>
       /\ \A n \in DOMAIN rho :
             (n < arg.icomp \/ n >= arg.icomp + arg.nc) =>
                rho[n] = hist.rho_in[n]
       /\ \A c \in DOMAIN rho[arg.icomp] :
             rho[arg.icomp][c] =
                hist.rho_in[arg.icomp][c]
                   + charge_added(arg, loc.lo, loc.np, c)

\* a call with icomp = 1 and nc = 2 has returned from the merge
C14_Witness ==
    /\ Returned /\ ~ cfg.gpu /\ arg.icomp = 1 /\ arg.nc = 2
    /\ rho # hist.rho_in

\* the sum of what the kernel has put into rho_fab so far: the scratch
\* buffer in buffered-merge mode, the zero field rho in direct-scatter mode
DepositedSoFar ==
    IF cfg.gpu THEN FieldSum
    ELSE SumOver(local_rho.data[0], DOMAIN local_rho.data[0])

(***************************************************************************)
(* C15. For an ionizable species and every start offset o, the charge      *)
(* deposited for the i-th particle of the partial batch is the weight of   *)
(* particle o+i times the species charge times the ionization level of     *)
(* that same particle o+i: after each particle of the kernel loop, what    *)
(* rho_fab has received is the charge of the particles o .. o+i, every     *)
(* add being inside rho_fab.                                               *)
(***************************************************************************)
C15_SameIndex ==
    (pc = "kernel" /\ arg.ionizable) =>
       DepositedSoFar = Den * ChargeOfRange(arg.offset, loc.ip)

\* the kernel of a call from offset 1 has deposited its first particle,
\* whose ionization level differs from that of particle 0
C15_Witness ==
    /\ pc = "kernel" /\ arg.ionizable /\ arg.offset = 1 /\ loc.ip = 1
    /\ cfg.ion[1] # cfg.ion[2]

\* rho after one deposit of the whole batch of the tile onto the field the
\* first call was given, with the other arguments of the present call
WholeBatchField ==
    LET a  == [arg EXCEPT !.offset = 0, !.np_to_deposit = nullopt]
        r0 == hist.past[1].rho_in
    IN  [n \in DOMAIN r0 |->
           IF n = arg.icomp * arg.nc
           THEN [c \in DOMAIN r0[n] |->
                   r0[n][c]
                     + (IF contains(WriteRegion(cfg.gpu), c)
                        THEN charge_added(a, loc.lo, Len(cfg.xp), c)
                        ELSE 0)]
           ELSE r0[n]]

(***************************************************************************)
(* C16. Partial-batch additivity: for a species that does not ionize and   *)
(* every split point k with 0 <= k <= N, depositing particles [0, k) and   *)
(* then particles [k, N) into the same field leaves the field that one     *)
(* deposit of the whole batch of N particles leaves.                       *)
(***************************************************************************)
C16_SplitAdditive ==
    SecondReturned =>
       /\ hist.past[1].arg.offset = 0
       /\ arg.offset = hist.past[1].np
       /\ hist.past[1].np + loc.np = Len(cfg.xp)
       /\ rho = WholeBatchField

\* both halves of a batch split in the middle have been deposited through
\* the merge and have changed the field
C16_Witness ==
    /\ SecondReturned /\ ~ cfg.gpu
    /\ hist.past[1].np = 1 /\ loc.np = Len(cfg.xp) - 1 /\ loc.np >= 1
    /\ hist.past[1].rho_out # hist.past[1].rho_in
    /\ rho # hist.past[1].rho_out
    /\ cfg.xp[1] # cfg.xp[2]

Merged(t) == merge[t].pc = "done"

\* what the scratch buffer of thread t holds for cell c of rho
Contribution(t, c) ==
    IF Merged(t) /\ contains(MergeScratch(t).box, c)
    THEN MergeScratch(t).data[c] ELSE 0

\* the call in view has returned or aborted and every other call has merged
AllReturned ==
    /\ pc \in {"done", "abort"}
    /\ \A t \in Threads \ {0} : Merged(t)

(***************************************************************************)
(* C18. When several calls in buffered-merge mode, each with a scratch     *)
(* buffer of its own, run concurrently and merge into overlapping regions  *)
(* of the same field, then under every interleaving the final value of     *)
(* every cell of the field is its initial value plus the sum of the        *)
(* scratch contributions for that cell: no merge update is lost.           *)
(***************************************************************************)
C18_NoLostUpdate ==
    AllReturned =>
       \A c \in Cells(RhoBox) :
          rho[0][c] = hist.rho_in[0][c]
                        + SumOver([t \in Threads |-> Contribution(t, c)],
                                  Threads)

\* all calls have merged and a cell has received charge from the call in
\* view and from another thread
C18_Witness ==
    /\ AllReturned /\ Merged(0)
    /\ \E c \in Cells(RhoBox) :
          Contribution(0, c) # 0 /\ Contribution(1, c) # 0

\* the scratch buffer the claim describes: the box of the buffered merge,
\* nc components, every cell zero
FreshScratch ==
    [box |-> WriteRegion(FALSE), nc |-> arg.nc,
     data |-> [n \in 0..(arg.nc - 1) |->
                 [c \in Cells(WriteRegion(FALSE)) |-> 0]]]

(***************************************************************************)
(* C19. In buffered-merge mode the result of deposit_charge does not       *)
(* depend on the previous size or contents of the caller's scratch buffer: *)
(* before the kernel runs the buffer is resized to the tile box converted  *)
(* to the field's staggering and grown by the deposition guard, with nc    *)
(* components, and every cell of it is zero.                               *)
(***************************************************************************)
C19_ScratchFresh ==
    /\ (~ cfg.gpu /\ pc = "kernel" /\ loc.ip = 0) => local_rho = FreshScratch
    /\ (~ cfg.gpu /\ Returned) => rho = ModeField(FALSE)

\* a call for one component has returned and has changed rho; the buffer it
\* was handed was a used one (CallScratch) and has now the size of the call
C19_Witness ==
    /\ Returned /\ ~ cfg.gpu /\ loc.np > 0 /\ arg.nc = 1
    /\ rho # hist.rho_in
    /\ local_rho.box = WriteRegion(FALSE)
    /\ local_rho.nc = 1

\* what the particles of a returned call contribute to cell c
contributed(call, c) == charge_added(call.arg, call.lo, call.np, c)

(***************************************************************************)
(* C20. deposit_charge accumulates: after a successful call every cell of  *)
(* the target field holds its value at call entry plus the contributions   *)
(* of the deposited particles, nothing of the field being overwritten or   *)
(* reset; two successive deposits onto the same field give the sum of      *)
(* their separate results.                                                 *)
(***************************************************************************)
C20_Accumulates ==
    /\ Returned =>
          \A c \in Cells(RhoBox) :
             rho[0][c] = hist.rho_in[0][c] + contributed(returned_call, c)
    /\ SecondReturned =>
          \A c \in Cells(RhoBox) :
             rho[0][c] = hist.past[1].rho_in[0][c]
                           + contributed(hist.past[1], c)
                           + contributed(returned_call, c)

\* a CPU call with a guard override of 0 has returned after a kernel add
\* outside the scratch buffer, at a cell that the field has
C20_Witness ==
    /\ Returned /\ ~ cfg.gpu /\ hist.oob
    /\ \E c \in Cells(RhoBox) :
          /\ ~ contains(loc.tb, c)
          /\ contributed(returned_call, c) # 0

(***************************************************************************)
(* C21. A guard override that exceeds the allocated guard width of the     *)
(* target field makes deposit_charge abort fatally; an omitted override    *)
(* means the allocated guard width; so the deposition guard that is used   *)
(* never exceeds the allocated guard.                                      *)
(***************************************************************************)
C21_GuardOverride ==
    Entered =>
       /\ GuardTooLarge => (Aborted /\ fail = "guards" /\ rho = hist.rho_in)
       /\ (~ arg.num_rho_deposition_guards.has_value) => loc.ng_rho = cfg.nGrow
       /\ (~ Aborted) => loc.ng_rho <= cfg.nGrow

\* a call with an override above the allocated guard has aborted
C21_Witness ==
    /\ Aborted /\ fail = "guards"
    /\ arg.num_rho_deposition_guards.has_value
    /\ arg.num_rho_deposition_guards.value = cfg.nGrow + 1

(***************************************************************************)
(* C22. Kernel dispatch: in a non-empty call that passes all checks the    *)
(* kernel specialization of order k is invoked exactly once when the shape *)
(* order is k in {1,2,3,4}, and no other one; for a shape order outside    *)
(* {1,2,3,4} no kernel is invoked, no error is raised for the order and    *)
(* the target field is left unchanged.                                     *)
(***************************************************************************)
C22_KernelDispatch ==
    /\ (Returned /\ loc.np > 0) =>
          IF cfg.particle_shape \in 1..4
          THEN /\ hist.invoked = << cfg.particle_shape >>
               /\ hist.read = arg.offset .. (arg.offset + loc.np - 1)
               /\ rho = ModeField(cfg.gpu)
          ELSE /\ hist.invoked = << >>
               /\ hist.read = {}
               /\ rho = hist.rho_in
    /\ (Entered /\ CountAsked > 0 /\ cfg.particle_shape \notin 1..4) =>
          fail \in {"none", "range"}
    /\ pc \in {"idle", "check", "boxes", "kernel", "abort"} =>
          hist.invoked = << >>

\* a non-empty call with shape order 5 has returned
C22_Witness ==
    /\ Returned /\ loc.np > 0 /\ cfg.particle_shape = 5
    /\ fail = "none"

\* a non-empty call with shape order 4 has returned and has changed rho
C22_WitnessOrder ==
    /\ Returned /\ loc.np > 0 /\ cfg.particle_shape = 4
    /\ rho # hist.rho_in

\* the index box the claim describes, before it is grown
IndexBox ==
    IF LevelAsked # Lev
    THEN Box(TileBox.lo \div arg.rel_ref_ratio.value,
             TileBox.hi \div arg.rel_ref_ratio.value)
    ELSE TileBox

\* the kernel has its boxes
BoxesMade == pc \in {"kernel", "merge"} \/ (Returned /\ loc.np > 0)

(***************************************************************************)
(* C23. The index box used for the scratch buffer and for the kernel's     *)
(* lower index bound is the tile box coarsened by the supplied ratio       *)
(* exactly when the target level differs from the source level; when the   *)
(* levels are equal the tile box is used uncoarsened, even if a ratio      *)
(* different from 1 was supplied.  In both cases the box is then grown by  *)
(* the deposition guard.                                                   *)
(***************************************************************************)
C23_IndexBox ==
    BoxesMade =>
       /\ loc.tilebox = Box(IndexBox.lo - GuardAsked, IndexBox.hi + GuardAsked)
       /\ loc.lo = IndexBox.lo - GuardAsked
       /\ (~ cfg.gpu) =>
             /\ local_rho.box = Box(IndexBox.lo - GuardAsked,
                                    convert(IndexBox, cfg.rho_type).hi
                                       + GuardAsked)
             /\ loc.tb = local_rho.box

\* the kernel runs on the level of the particles with a ratio of 2 supplied
C23_Witness ==
    /\ BoxesMade /\ ~ cfg.gpu
    /\ LevelAsked = Lev /\ arg.rel_ref_ratio = Some(2)
    /\ arg.num_rho_deposition_guards.has_value

\* the kernel runs on the coarser level with a ratio of 2
C23_WitnessCoarse ==
    /\ BoxesMade /\ ~ cfg.gpu
    /\ LevelAsked = Lev - 1 /\ arg.rel_ref_ratio = Some(2)
    /\ loc.tilebox # grow(TileBox, GuardAsked)

(***************************************************************************)
(* C24. Order of checks: the guard-override, count/offset, target-level    *)
(* and missing-ratio checks are all evaluated before the empty-batch early *)
(* exit, and the particle-fits-in-guard check only after it; so a call     *)
(* with zero particles and an invalid level or ratio aborts, while a call  *)
(* with zero particles and an undersized guard returns without error.      *)
(***************************************************************************)
C24_CheckOrder ==
    Entered =>
       /\ ArgumentsFatal =>
             (Aborted /\ fail \in {"guards", "count", "level", "ratio"})
       /\ (CountAsked = 0 /\ (LevelUnsupported \/ RatioMissing)) => Aborted
       /\ (CountAsked = 0 /\ ~ ArgumentsFatal) =>
             (Returned /\ fail = "none")
       /\ fail = "range" =>
             (CountAsked > 0 /\ ~ ArgumentsFatal /\ ParticleTooFar(cfg.gpu))

\* a call for zero particles has returned although a particle of the tile
\* is outside what the guard allows for the shape
C24_Witness ==
    /\ Returned /\ CountAsked = 0 /\ Len(cfg.xp) > 0
    /\ ParticleTooFar(cfg.gpu)
    /\ GuardAvailable(cfg.gpu) < cfg.particle_shape \div 2 + 1

\* a call for zero particles has aborted at the level assertion
C24_WitnessLevel ==
    /\ Aborted /\ CountAsked = 0 /\ fail = "level"

(***************************************************************************)
(* C25. In every call that passes its checks, every particle index at      *)
(* which the kernel reads a weight, a position or an ionization level lies *)
(* in [0, number of particles in the tile), for all integer values of      *)
(* offset and count, negative ones included.                               *)
(***************************************************************************)
C25_ReadsInTile ==
    \A i \in hist.read : 0 <= i /\ i < Len(cfg.xp)

\* the kernel of a call with offset -1 has read at index -1 and gone on
C25_Witness ==
    /\ arg.offset = -1 /\ fail = "none"
    /\ -1 \in hist.read
    /\ Returned

\* the momentum components of the particles of the container
Momenta ==
    { << lev, i, c >> : lev \in DOMAIN container.levels, i \in {1},
                        c \in {"ux", "uy", "uz"} }

MomentumNow(k) == container.levels[k[1]][k[2]][k[3]]

MomentumBefore(k) == container.before[k[1]][k[2]][k[3]]

\* everything but the momenta is as it was
OthersKept ==
    /\ DOMAIN container.levels = DOMAIN container.before
    /\ \A lev \in DOMAIN container.levels :
          /\ DOMAIN container.levels[lev] = DOMAIN container.before[lev]
          /\ \A i \in DOMAIN container.levels[lev] :
                /\ container.levels[lev][i].x = container.before[lev][i].x
                /\ container.levels[lev][i].w = container.before[lev][i].w

\* one conversion has multiplied every momentum once by the mass, or by
\* the reciprocal of the mass
ConvertedOnce ==
    Len(container.calls) = 1 =>
       \A k \in Momenta :
          MomentumNow(k) =
             IF container.calls[1] = "WarpX_to_SI"
             THEN fmul(MomentumBefore(k), container.mass)
             ELSE fmul(MomentumBefore(k), finv(container.mass))

RoundTrip == container.calls = << "WarpX_to_SI", "SI_to_WarpX" >>

\* a - b as an integer multiple of 2^e with e the smaller exponent
Apart(a, b) ==
    LET e == IF a.e < b.e THEN a.e ELSE b.e
    IN  Abs(a.m * 2^(a.e - e) - b.m * 2^(b.e - e))

\* a and b differ by at most 4 * 2^-MantissaBits * |b|
WithinRounding(a, b) ==
    LET e == IF a.e < b.e THEN a.e ELSE b.e
    IN  Apart(a, b) * 2^MantissaBits <= 4 * Abs(b.m) * 2^(b.e - e)

BaseNames ==
    {"xmin", "xmax", "ymin", "ymax", "zmin", "zmax", "pxmin", "pxmax",
     "pymin", "pymax", "pzmin", "pzmax", "gmin", "gmax", "wmin", "wmax"}

\* ComputeDiags has been called
DiagCalled == diag.built /\ diag.step > 0

\* the species of the diagnostic is one of the simulation
SpeciesFound ==
    \E i \in DOMAIN diag.sim.species_names :
       diag.sim.species_names[i] = diag.m_species_name

\* the value that the entry of a name reports for the particles reduced
Reported(name) ==
    LET ps == diag.particles
        m  == IF diag.sim.is_photon THEN diag.sim.m_e ELSE diag.sim.mass
        quantity(p) ==
           CASE name \in {"xmin", "xmax"} -> p.x
             [] name \in {"ymin", "ymax"} -> p.y
             [] name \in {"zmin", "zmax"} -> p.z
             [] name \in {"pxmin", "pxmax"} -> p.ux * m
             [] name \in {"pymin", "pymax"} -> p.uy * m
             [] name \in {"pzmin", "pzmax"} -> p.uz * m
             [] name \in {"wmin", "wmax"} -> p.w
             [] name \in {"gmin", "gmax"} ->
                  sqrt((IF diag.sim.is_photon THEN 0 ELSE 1)
                         + p.ux * p.ux + p.uy * p.uy + p.uz * p.uz)
        vals == { quantity(p) : p \in ps }
        least == name \in {"xmin", "ymin", "zmin", "pxmin", "pymin", "pzmin",
                           "gmin", "wmin"}
    IN  IF diag.sim.dim = "1D_Z" /\ name \in {"xmin", "xmax", "ymin", "ymax"}
        THEN 0
        ELSE IF least THEN CHOOSE v \in vals : \A u \in vals : v <= u
        ELSE CHOOSE v \in vals : \A u \in vals : v >= u

\* how often the last ComputeDiags has written m_data at index i
WritesAt(i) == Cardinality({ k \in DOMAIN diag.writes : diag.writes[k] = i })

(***************************************************************************)
(* C27. ComputeDiags(step) leaves m_data unchanged unless the intervals of *)
(* the diagnostic contain step + 1; when they do, it writes every one of   *)
(* the 16 base entries xmin..wmax of the selected species exactly once,    *)
(* each at the index that the constructor assigned to the header of the    *)
(* same name, and writes nothing for species with a different name.        *)
(***************************************************************************)
C27_ComputeDiagsFrame ==
    DiagCalled =>
       /\ (~ diag.computed) =>
             (diag.m_data = diag.before /\ diag.writes = << >>)
       /\ (diag.computed /\ ~ SpeciesFound) =>
             (diag.m_data = diag.before /\ diag.writes = << >>
                /\ diag.m_data = << >>)
       /\ (diag.computed /\ SpeciesFound) =>
             /\ \A name \in BaseNames :
                   LET el == diag.m_headers_indices[name]
                   IN  /\ el.header[1] = name
                       /\ WritesAt(el.idx) = 1
                       /\ diag.particles # {} =>
                             diag.m_data[el.idx + 1] = Reported(name)
             /\ \A n1, n2 \in BaseNames :
                   n1 # n2 => diag.m_headers_indices[n1].idx
                                 # diag.m_headers_indices[n2].idx
             /\ \A k \in DOMAIN diag.writes :
                   diag.writes[k] \in 0..(Len(diag.m_data) - 1)

\* the diagnostics of a found species with two particles have been
\* computed, after a step at which they were not
C27_Witness ==
    /\ DiagCalled /\ diag.computed /\ SpeciesFound
    /\ diag.step = 2 /\ 1 \notin diag.m_intervals
    /\ Cardinality(diag.particles) = 2
    /\ diag.sim.dim = "3D"
    /\ diag.m_data # diag.before

\* the pairs of a minimum and its maximum
ExtremaPairs ==
    { << "xmin", "xmax" >>, << "ymin", "ymax" >>, << "zmin", "zmax" >>,
      << "pxmin", "pxmax" >>, << "pymin", "pymax" >>, << "pzmin", "pzmax" >>,
      << "gmin", "gmax" >>, << "wmin", "wmax" >> }

\* the entry of m_data that is reported under a name
Entry(name) == diag.m_data[diag.m_headers_indices[name].idx + 1]

\* the last ComputeDiags computed the diagnostics of a species of
\* positive mass
ExtremaComputed ==
    /\ DiagCalled /\ diag.computed /\ SpeciesFound
    /\ (IF diag.sim.is_photon THEN diag.sim.m_e ELSE diag.sim.mass) > 0

(***************************************************************************)
(* C28. After every ComputeDiags that computes the diagnostics, each       *)
(* reported minimum is less than or equal to the matching maximum          *)
(* (xmin <= xmax, ymin <= ymax, zmin <= zmax, pxmin <= pxmax,              *)
(* pymin <= pymax, pzmin <= pzmax, gmin <= gmax, wmin <= wmax), for a      *)
(* species with positive mass and any number of particles, zero included.  *)
(***************************************************************************)
C28_MinBelowMax ==
    ExtremaComputed =>
       \A pair \in ExtremaPairs : Entry(pair[1]) <= Entry(pair[2])

\* the diagnostics of a species that has no particle have been computed:
\* zmin is above zmax
C28_Witness ==
    /\ ExtremaComputed
    /\ diag.particles = {}
    /\ Entry("zmin") > Entry("zmax")

====
